---- MODULE Spec2Model ----
(***************************************************************************)
(* Interview session engine of chatapp/views.py: the per-browser session   *)
(* dictionary (request.session), the InterviewTranscript / InterviewTemplate*)
(* / ProctorViolation tables, and the request handlers start_interview,    *)
(* stream_chat, check_time, proctor_violation and end_interview.           *)
(***************************************************************************)
EXTENDS Integers, Sequences, FiniteSets, TLC

\* ---------------------------------------------------------------- constants
INTERVIEW_DURATION == 60
MAX_FOLLOWUPS_PER_TOPIC == 2

\* ------------------------------------------------------------------- bounds
\* longest topic list a template holds
MaxTopics == 2
\* answers the client submits that reach the evaluator, over the whole run
MaxAnswers == 6
\* start_interview calls that start an interview, over the whole run
MaxInterviews == 1
MaxRestarts == 2
\* failures injected over a run of SpecFaults: a database read or write that
\* raises, an Ollama stream that breaks, a client that leaves the stream
MaxFaults == 1
\* answers whose evaluation score varies; the later ones get the highest score
MaxVaried == 1
\* tokens of one streamed reply
MaxTokens == 1
\* candidate turns of a transcript that calculate_final_score is called on
MaxTurns == 4
MaxScores == 121
\* seconds the wall clock advances per Tick, and the last instant considered
TickStep == 61
MaxTime == 62

\* ------------------------------------------------------------ value domains
AllTopics == <<"Arrays", "Recursion", "Graphs", "Trees">>
TopicLists == {SubSeq(AllTopics, 1, n) : n \in 0..MaxTopics}
\* the template a request may name: 0 = none, 1 = the stored one, 2 = unknown
RequestTemplateIds == {0, 1, 2}
\* evaluation_score values an evaluation may carry
EvalScores == {3, 8}
\* the proctoring signals received: <<type, free-text reason>>
Signals == {<<"multiple_faces", "r1">>, <<"copy_attempt", "r2">>,
            <<"looking_away", "r1">>}
\* transcript_id stored when no transcript row could be created ("session_only")
SESSION_ONLY == -1
\* request.session.get(key) of a missing key (None)
NONE == 0

VARIABLES
    session,      \* request.session: a dictionary, key -> value
    transcripts,  \* InterviewTranscript rows, row id = position
    templates,    \* InterviewTemplate rows, id -> row
    violations,   \* ProctorViolation rows
    evidence,     \* files written under evidence/logs
    now,          \* time.time()
    eval_model,   \* whether the remote model is configured (module global)
    response,     \* the response of the last request
    answers,      \* calls of evaluate_answer_gemini made so far
    faults,       \* failures that may still be injected
    starts,       \* interviews started so far
    reports,      \* per transcript row: runs of report generation so far
    tie_rounds,   \* how round(x, 2) resolved an exact tie ("unknown": none met)
    call,         \* the last direct call of a scoring function and its result
    inflight      \* a stream_chat request being served: the session it loaded

vars == <<session, transcripts, templates, violations, evidence, now, eval_model,
          response, answers, faults, starts, reports, tie_rounds, call, inflight>>

\* ------------------------------------------------------- dictionary helpers
Get(s, k, d) == IF k \in DOMAIN s THEN s[k] ELSE d
Put(s, k, v) == [x \in (DOMAIN s) \cup {k} |-> IF x = k THEN v ELSE s[x]]
Update(s, u) == [x \in (DOMAIN s) \cup (DOMAIN u) |->
                    IF x \in DOMAIN u THEN u[x] ELSE s[x]]

\* ------------------------------------------------ questions, turns and lines
Q(kind, topic, n) == [kind |-> kind, topic |-> topic, n |-> n]
NoQ == Q("none", "", 0)
\* prompt: the topics a system prompt names, <<>> on every other turn
Turn(role, q, score) == [role |-> role, q |-> q, score |-> score, prompt |-> <<>>]
\* one line of InterviewTranscript.conversation_history; score: the integers
\* calculate_final_score reads from the line, <<n>> for a line with 'Score: n/'
\* in it and <<>> for a line without 'Score:'
Line(kind, q, score) == [kind |-> kind, q |-> q, score |-> score]

\* ------------------------------------------------------------------ answers
\* a candidate's message, by what the code reads from its text: the entries of
\* technical_terms found in it, the quality indicators matched, its length
\* (its number of words), whether it holds an off-topic
\* phrase, and what a reader of 'Score: n/' finds in it (says)
Answer(terms, quality, words, off_topic, says) ==
    [terms |-> terms, quality |-> quality, words |-> words,
     off_topic |-> off_topic, says |-> says]

Weak == Answer(0, 0, 5, FALSE, <<>>)
Strong == Answer(6, 0, 40, FALSE, <<>>)
\* a strong answer with the words 'Score: 10/10' in it
Boast == Answer(6, 0, 40, FALSE, <<10>>)
\* the answers a candidate may give
AnswerTexts ==
    {Weak, Strong, Boast,
     Answer(0, 1, 5, TRUE, <<>>),
     Answer(1, 0, 40, FALSE, <<>>),
     Answer(7, 5, 120, FALSE, <<>>)}
\* the answers the heuristic scorer is called on directly: every number of
\* matched terms up to one past the cap, every number of indicator
\* categories, the word counts around both thresholds
WordCounts == {14, 15, 100, 101}
StrictAnswers ==
    {Answer(terms, quality, words, off_topic, <<>>) :
         terms \in 0..7, quality \in 0..5, words \in WordCounts,
         off_topic \in BOOLEAN}

\* --------------------------------------------------------------- evaluation
Evaluation(score, text, technical_accuracy, completeness, clarity) ==
    [evaluation_score |-> score, evaluation_text |-> text,
     technical_accuracy |-> technical_accuracy, completeness |-> completeness,
     clarity |-> clarity]

\* generate_technical_feedback: the feedback band of a score
generate_technical_feedback(score) ==
    IF score >= 9 THEN "excellent"
    ELSE IF score >= 7 THEN "strong"
    ELSE IF score >= 5 THEN "adequate"
    ELSE IF score >= 3 THEN "basic"
    ELSE "insufficient"

\* max(lo, min(hi, x))
Clamp(x, lo, hi) == IF x < lo THEN lo ELSE IF x > hi THEN hi ELSE x

\* round(num / den) to the nearest integer, ties to even
RoundDiv(num, den) ==
    LET q == num \div den
        r == num % den
    IN  IF 2 * r > den \/ (2 * r = den /\ q % 2 = 1) THEN q + 1 ELSE q

\* evaluate_answer_strict with an answer of exactly 15 words taken as too brief
evaluate_answer_strict_BriefAt15(answer) ==
    LET technical2 == IF answer.terms < 6 THEN answer.terms ELSE 6
        quality2 == IF answer.quality < 4 THEN answer.quality ELSE 4
        length2 == IF answer.words <= 15 THEN -4
                   ELSE IF answer.words > 100 THEN 2 ELSE 0
        raw2 == 10 + technical2 + quality2 + length2
        penalised2 == IF answer.off_topic /\ answer.terms = 0
                      THEN (IF raw2 - 6 > 2 THEN raw2 - 6 ELSE 2)
                      ELSE raw2
        score == Clamp(RoundDiv(penalised2, 2), 1, 10)
        sub == Clamp(RoundDiv(score, 2), 1, 5)
    IN  Evaluation(score, generate_technical_feedback(score), sub, sub, sub)

\* evaluate_answer_strict; the score is counted in halves until it is rounded
evaluate_answer_strict(answer) ==
    LET technical2 == IF answer.terms < 6 THEN answer.terms ELSE 6
        quality2 == IF answer.quality < 4 THEN answer.quality ELSE 4
        length2 == IF answer.words < 15 THEN -4
                   ELSE IF answer.words > 100 THEN 2 ELSE 0
        raw2 == 10 + technical2 + quality2 + length2
        penalised2 == IF answer.off_topic /\ answer.terms = 0
                      THEN (IF raw2 - 6 > 2 THEN raw2 - 6 ELSE 2)
                      ELSE raw2
        score == Clamp(RoundDiv(penalised2, 2), 1, 10)
        sub == Clamp(RoundDiv(score, 2), 1, 5)
    IN  Evaluation(score, generate_technical_feedback(score), sub, sub, sub)

\* what eval_model.generate_content does on one call: it raises, it answers
\* with text that json.loads rejects, or with a JSON object (data)
Raises == [kind |-> "raise", data |-> <<>>]
Malformed == [kind |-> "malformed", data |-> <<>>]
Json(data) == [kind |-> "json", data |-> data]
\* an object with every field of the prompt's format
Scored(score, sub) ==
    Json([k \in {"evaluation_score", "evaluation_text", "technical_accuracy",
                 "completeness", "clarity"} |->
             IF k = "evaluation_score" THEN score
             ELSE IF k = "evaluation_text" THEN "remote" ELSE sub])
\* the values a field of the remote object may hold
RemoteValues == {0, 4, 11}
EvalReplies ==
    {Raises, Malformed, Json([k \in {"note"} |-> 0])}
    \cup {Scored(score, sub) : score \in RemoteValues, sub \in {0, 3, 6}}
    \cup {Json([k \in {"evaluation_score"} |-> score]) : score \in RemoteValues}

\* evaluate_answer_gemini; model: eval_model is set, reply: what it does
evaluate_answer_gemini(model, reply, answer) ==
    IF ~model THEN evaluate_answer_strict(answer)
    ELSE IF reply.kind # "json" THEN evaluate_answer_strict(answer)
    ELSE LET score == Get(reply.data, "evaluation_score", 5)
             text == Get(reply.data, "evaluation_text", "")
         IN  Evaluation(score,
                        IF text = "" THEN generate_technical_feedback(score)
                        ELSE text,
                        Get(reply.data, "technical_accuracy", 3),
                        Get(reply.data, "completeness", 3),
                        Get(reply.data, "clarity", 3))

\* format_log_entry: the lines one entry adds to the transcript text
format_log_entry(role_name, text, evaluation) ==
    IF role_name = "user"
    THEN <<Line("candidate", NoQ, text.says),
           Line("score", NoQ, <<evaluation.evaluation_score>>)>>
    ELSE <<Line("interviewer", text, <<>>)>>

\* ------------------------------------------------------------ final scoring
\* the scores calculate_final_score extracts: one per line that holds 'Score:'
\* (a line gives at most one score: the integer after its first 'Score:')
ExtractScores(history) ==
    LET scored == SelectSeq(history, LAMBDA line : line.score # <<>>)
    IN  [i \in 1..Len(scored) |-> scored[i].score[1]]

\* Weight10 that gives every score the full weight
Weight10_Unweighted(i) == 10

\* weight of the i-th score (0-indexed), in tenths: min(1.0, 0.7 + i * 0.1)
Weight10(i) == IF 7 + i < 10 THEN 7 + i ELSE 10

RECURSIVE WeightedSum10(_, _)
WeightedSum10(scores, i) ==
    IF scores = <<>> THEN 0
    ELSE IF Len(scores) = 1 THEN scores[1] * Weight10(i)
    ELSE LET half == Len(scores) \div 2
         IN  WeightedSum10(SubSeq(scores, 1, half), i)
             + WeightedSum10(SubSeq(scores, half + 1, Len(scores)), i + half)

\* the sides an exact tie of round(x, 2) may fall to
TieSides == {"down", "up"}

\* Round2 that cuts the digits after the second decimal
Round2_Floor(num, den, tie) == num \div den

\* round(x, 2) of a binary double, in hundredths: the nearest hundredth; when
\* the exact quotient lies halfway between two hundredths the double that
\* stands for it decides, and tie says to which side it falls
Round2(num, den, tie) ==
    LET q == num \div den
        r == num % den
    IN  IF 2 * r > den \/ (2 * r = den /\ tie = "up") THEN q + 1 ELSE q

\* calculate_final_score, in hundredths (round(sum(weighted) / len, 2))
calculate_final_score(history, tie) ==
    LET scores == ExtractScores(history)
    IN  IF scores = <<>> THEN 0
        ELSE Round2(10 * WeightedSum10(scores, 0), Len(scores), tie)

\* whether the exact mean of the history's scores lies halfway
HalfWay(history) ==
    LET scores == ExtractScores(history)
    IN  /\ scores # <<>>
        /\ 2 * ((10 * WeightedSum10(scores, 0)) % Len(scores)) = Len(scores)

\* ------------------------------------------------------------------- reports
Report(kind, text, final, scores) ==
    [kind |-> kind, text |-> text, final |-> final, scores |-> scores]
\* InterviewTranscript.final_report before any report is written (blank=True)
NoReport == Report("", "", 0, <<>>)
\* texts the remote model may answer the report prompt with
RemoteReports == {"#g1", "g2"}
\* outcome of one remote report request: a text, or "fail" (raises)
RemoteOutcomes == RemoteReports \cup {"fail"}

\* get_recommendation with a final score of exactly 8 not yet a strong hire
get_recommendation_Above8(score) ==
    IF score > 800 THEN "Strong Hire"
    ELSE IF score >= 600 THEN "Consider with Training"
    ELSE "Do Not Hire"

\* get_recommendation; the score is in hundredths, as calculate_final_score
\* returns it
get_recommendation(score) ==
    IF score >= 800 THEN "Strong Hire"
    ELSE IF score >= 600 THEN "Consider with Training"
    ELSE "Do Not Hire"

\* generate_basic_report: a function of the extracted scores and final score
generate_basic_report(history, final_score) ==
    Report("basic", "", final_score, ExtractScores(history))

\* generate_comprehensive_report; remote is the model's behaviour on this call
generate_comprehensive_report(history, final_score, model, remote) ==
    IF ~model THEN generate_basic_report(history, final_score)
    ELSE IF remote = "fail" THEN generate_basic_report(history, final_score)
    ELSE IF remote = "#g1" THEN Report("remote", remote, 0, <<>>)
    ELSE Report("remote_headed", remote, final_score, <<>>)

\* ---------------------------------------------------------- transcript rows
\* final_score of a row no score was written to (null=True)
NULL == -1
Row(history, template, created) ==
    [conversation_history |-> history, template |-> template,
     completed |-> FALSE, final_score |-> NULL, final_report |-> NoReport,
     duration |-> NULL, created_at |-> created]

\* `transcript_id and transcript_id != "session_only"`
InDb(tid) == tid # NONE /\ tid # SESSION_ONLY

\* tr.completed = True; tr.final_score = ...; tr.final_report = ...
Finalize(tr, model, remote, tie) ==
    LET fs == calculate_final_score(tr.conversation_history, tie)
    IN  [tr EXCEPT !.completed = TRUE,
                   !.final_score = fs,
                   !.final_report = generate_comprehensive_report(
                                       tr.conversation_history, fs, model, remote)]

\* ------------------------------------------------------------ session guard
interview_keys ==
    {"conversation", "role", "asked_questions", "current_question_index",
     "interview_mode", "follow_up_count", "poor_answer_count", "off_topic_count",
     "interview_started", "transcript_id", "interview_start_time", "timer_set",
     "interview_suspended", "suspension_reason", "template_id", "transcript_log",
     "asked_topics", "current_topic", "current_topic_followups", "topic_questions",
     "current_topic_index", "interview_completed"}

clear_interview_session(s) == [k \in (DOMAIN s) \ interview_keys |-> s[k]]

\* check_interview_time_remaining without the floor at 0
check_interview_time_remaining_NoFloor(s, t) ==
    IF Get(s, "interview_start_time", NONE) = NONE THEN INTERVIEW_DURATION
    ELSE INTERVIEW_DURATION - (t - s["interview_start_time"])

\* `not request.session.get("interview_start_time")`: missing or 0
check_interview_time_remaining(s, t) ==
    IF Get(s, "interview_start_time", NONE) = NONE THEN INTERVIEW_DURATION
    ELSE LET remaining == INTERVIEW_DURATION - (t - s["interview_start_time"])
         IN  IF remaining > 0 THEN remaining ELSE 0

is_interview_suspended(s) == Get(s, "interview_suspended", FALSE)

is_interview_completed(s) == Get(s, "interview_completed", FALSE)

suspend_interview_session(s, reason) ==
    Put(Put(s, "interview_suspended", TRUE), "suspension_reason", reason)

complete_interview_session(s) == Put(s, "interview_completed", TRUE)

get_conversation(s) == Get(s, "conversation", <<>>)

save_conversation(s, convo) == Put(s, "conversation", convo)

\* ----------------------------------------------------------------- responses
Resp(op, status, error, reply) ==
    [op |-> op, status |-> status, error |-> error, reply |-> reply,
     detail |-> <<>>, question |-> Turn("", NoQ, 0), chunks |-> <<>>,
     time_remaining |-> 0, total_time |-> 0,
     suspended |-> FALSE, completed |-> FALSE, final_score |-> 0,
     final_report |-> NoReport]

\* ------------------------------------------------------------ question plan
\* generate_intelligent_question: followup_count 0 is a topic's first question
generate_intelligent_question(topic, followup_count) ==
    Q(IF followup_count = 0 THEN "opening" ELSE "followup", topic, followup_count)

\* PlanTemplate with the cap compared after counting the question being asked
PlanTemplate_CapOffByOne(topics, current_topic_index, current_followups) ==
    IF current_topic_index < Len(topics)
    THEN IF current_followups + 1 < MAX_FOLLOWUPS_PER_TOPIC
         THEN [next_q |-> generate_intelligent_question(
                              topics[current_topic_index + 1], current_followups + 1),
               index |-> current_topic_index,
               followups |-> current_followups + 1,
               write |-> {"current_topic_followups"},
               complete |-> FALSE]
         ELSE IF current_topic_index + 1 < Len(topics)
         THEN [next_q |-> generate_intelligent_question(
                              topics[current_topic_index + 2], 0),
               index |-> current_topic_index + 1,
               followups |-> 0,
               write |-> {"current_topic_index", "current_topic_followups"},
               complete |-> FALSE]
         ELSE [next_q |-> Q("closing", "", 0),
               index |-> current_topic_index + 1,
               followups |-> 0,
               write |-> {"current_topic_index", "current_topic_followups"},
               complete |-> TRUE]
    ELSE [next_q |-> Q("closing_short", "", 0),
          index |-> current_topic_index,
          followups |-> current_followups,
          write |-> {},
          complete |-> TRUE]

\* PlanTemplate with the counter left as it is when the cursor advances
PlanTemplate_NoReset(topics, current_topic_index, current_followups) ==
    IF current_topic_index < Len(topics)
    THEN IF current_followups < MAX_FOLLOWUPS_PER_TOPIC
         THEN [next_q |-> generate_intelligent_question(
                              topics[current_topic_index + 1], current_followups + 1),
               index |-> current_topic_index,
               followups |-> current_followups + 1,
               write |-> {"current_topic_followups"},
               complete |-> FALSE]
         ELSE IF current_topic_index + 1 < Len(topics)
         THEN [next_q |-> generate_intelligent_question(
                              topics[current_topic_index + 2], 0),
               index |-> current_topic_index + 1,
               followups |-> current_followups,
               write |-> {"current_topic_index"},
               complete |-> FALSE]
         ELSE [next_q |-> Q("closing", "", 0),
               index |-> current_topic_index + 1,
               followups |-> 0,
               write |-> {"current_topic_index", "current_topic_followups"},
               complete |-> TRUE]
    ELSE [next_q |-> Q("closing_short", "", 0),
          index |-> current_topic_index,
          followups |-> current_followups,
          write |-> {},
          complete |-> TRUE]

\* PlanTemplate that asks one follow-up more than the cap
PlanTemplate_CapPlusOne(topics, current_topic_index, current_followups) ==
    IF current_topic_index < Len(topics)
    THEN IF current_followups <= MAX_FOLLOWUPS_PER_TOPIC
         THEN [next_q |-> generate_intelligent_question(
                              topics[current_topic_index + 1], current_followups + 1),
               index |-> current_topic_index,
               followups |-> current_followups + 1,
               write |-> {"current_topic_followups"},
               complete |-> FALSE]
         ELSE IF current_topic_index + 1 < Len(topics)
         THEN [next_q |-> generate_intelligent_question(
                              topics[current_topic_index + 2], 0),
               index |-> current_topic_index + 1,
               followups |-> 0,
               write |-> {"current_topic_index", "current_topic_followups"},
               complete |-> FALSE]
         ELSE [next_q |-> Q("closing", "", 0),
               index |-> current_topic_index + 1,
               followups |-> 0,
               write |-> {"current_topic_index", "current_topic_followups"},
               complete |-> TRUE]
    ELSE [next_q |-> Q("closing_short", "", 0),
          index |-> current_topic_index,
          followups |-> current_followups,
          write |-> {},
          complete |-> TRUE]

\* the template branch of stream_chat: next question, cursor, counter, end flag
PlanTemplate(topics, current_topic_index, current_followups) ==
    IF current_topic_index < Len(topics)
    THEN IF current_followups < MAX_FOLLOWUPS_PER_TOPIC
         THEN [next_q |-> generate_intelligent_question(
                              topics[current_topic_index + 1], current_followups + 1),
               index |-> current_topic_index,
               followups |-> current_followups + 1,
               write |-> {"current_topic_followups"},
               complete |-> FALSE]
         ELSE IF current_topic_index + 1 < Len(topics)
         THEN [next_q |-> generate_intelligent_question(
                              topics[current_topic_index + 2], 0),
               index |-> current_topic_index + 1,
               followups |-> 0,
               write |-> {"current_topic_index", "current_topic_followups"},
               complete |-> FALSE]
         ELSE [next_q |-> Q("closing", "", 0),
               index |-> current_topic_index + 1,
               followups |-> 0,
               write |-> {"current_topic_index", "current_topic_followups"},
               complete |-> TRUE]
    ELSE [next_q |-> Q("closing_short", "", 0),
          index |-> current_topic_index,
          followups |-> current_followups,
          write |-> {},
          complete |-> TRUE]

\* PlanDefault with the related-question band starting one score too high
PlanDefault_RelatedFrom7(score) ==
    IF score >= 8 THEN Q("challenge", "", 0)
    ELSE IF score >= 7 THEN Q("related", "", 0)
    ELSE IF score >= 4 THEN Q("clarifying", "", 0)
    ELSE Q("fundamental", "programming fundamentals", 0)

\* the default branch of stream_chat: the band of the evaluation score
\* PlanDefault that ends the interview after a strong answer
PlanDefault_ClosesOnTop(score) ==
    IF score >= 8 THEN Q("closing", "", 0)
    ELSE IF score >= 6 THEN Q("related", "", 0)
    ELSE IF score >= 4 THEN Q("clarifying", "", 0)
    ELSE Q("fundamental", "programming fundamentals", 0)

PlanDefault(score) ==
    IF score >= 8 THEN Q("challenge", "", 0)
    ELSE IF score >= 6 THEN Q("related", "", 0)
    ELSE IF score >= 4 THEN Q("clarifying", "", 0)
    ELSE Q("fundamental", "programming fundamentals", 0)

\* --------------------------------------------------------------------- Init
\* no scoring function has been called directly
NoCall == [fn |-> "", answer |-> Weak, reply |-> Raises, turns |-> <<>>,
           args |-> <<>>, out |-> NONE]

\* no stream_chat request is being served
\* (row: <<tr>> once the request has fetched its transcript row, else <<>>)
NoFlight == [active |-> FALSE, session |-> [k \in {} |-> NONE], row |-> <<>>]

\* the server after start-up, the client logged in, one template stored
Boot ==
    /\ inflight = NoFlight
    /\ session = [k \in {"_auth_user_id"} |-> 1]
    /\ transcripts = <<>>
    /\ \E topics \in TopicLists : templates = [id \in {1} |-> [topics |-> topics]]
    /\ violations = <<>>
    /\ evidence = <<>>
    /\ now = 1
    /\ eval_model \in BOOLEAN
    /\ response = Resp("", 0, "", NoQ)
    /\ answers = 0
    /\ starts = 0
    /\ reports = <<>>
    /\ tie_rounds = "unknown"

\* every database call and every stream succeeds
Init == Boot /\ faults = 0 /\ call = NoCall

\* up to MaxFaults calls fail
InitFaults == Boot /\ faults = MaxFaults /\ call = NoCall

\* the wall clock advances
Tick ==
    /\ now + TickStep <= MaxTime
    /\ now' = now + TickStep
    /\ UNCHANGED <<inflight, session, transcripts, templates, call, tie_rounds, violations, evidence,
                   eval_model, response, answers, faults, starts, reports>>

\* a failure may be injected while the budget lasts
Fault(ok) ==
    /\ ok \/ faults > 0
    /\ faults' = IF ok THEN faults ELSE faults - 1

\* the answers the next submit-answer call may carry
AnswerChoices == IF answers < MaxVaried THEN {Weak, Strong} ELSE {Strong}

\* what the evaluation model may do with the next answer
ReplyChoices ==
    IF ~eval_model THEN {Raises}
    ELSE IF answers < MaxVaried
    THEN {Raises} \cup {Scored(score, 3) : score \in EvalScores}
    ELSE {Scored(8, 4)}

\* what the report model may do on a call, when it is configured at all
RemoteChoices == IF eval_model THEN RemoteOutcomes ELSE {"fail"}

\* request.session lives in the session store between requests; the view
\* changes a copy that SessionMiddleware stores when the response is returned.
\* The middleware does not store it with a response of status 500, while a
\* caller that holds the session object itself (scripts/test_end_interview.py)
\* keeps every change: both outcomes of a 500 response are considered.
SessionSaveChoices(status) == IF status >= 500 THEN BOOLEAN ELSE {TRUE}

\* ---------------------------------------------------------- start_interview
\* generate_system_prompt_from_template: the topics the prompt lists
generate_system_prompt_from_template(topics) ==
    IF topics # <<>> THEN topics ELSE <<"core concepts">>

\* StartSession that neither clears the session nor resets the suspension
StartSession_KeepsSuspension(s, template_id, use_dynamic_mode, topics, t) ==
    LET templated == template_id # 0 /\ ~use_dynamic_mode
        first_q == IF templated
                   THEN IF topics # <<>> THEN Q("intro", "", 0)
                        ELSE Q("role_intro", "", 0)
                   ELSE IF use_dynamic_mode THEN Q("dynamic_intro", "", 0)
                   ELSE Q("default_intro", "", 0)
        interview_mode == IF templated THEN "template"
                          ELSE IF use_dynamic_mode THEN "dynamic" ELSE "default"
        s1 == IF templated /\ topics # <<>>
              THEN Update(s, [current_topic_index |-> 0,
                              current_topic_followups |-> 0,
                              interview_completed |-> FALSE])
              ELSE s
        s2 == IF templated THEN Put(s1, "template_id", template_id) ELSE s1
        system_prompt == IF templated
                         THEN generate_system_prompt_from_template(topics)
                         ELSE <<>>
        convo == <<[Turn("system", NoQ, 0) EXCEPT !.prompt = system_prompt],
                   Turn("assistant", first_q, 0)>>
    IN  Update(s2, [conversation |-> convo, role |-> "role",
                    interview_mode |-> interview_mode,
                    follow_up_count |-> 0, poor_answer_count |-> 0,
                    off_topic_count |-> 0, interview_started |-> TRUE,
                    interview_start_time |-> t, timer_set |-> TRUE,
                    interview_completed |-> FALSE])

\* the state start_interview builds in the session before the transcript row
StartSession(s, template_id, use_dynamic_mode, topics, t) ==
    LET cleared == clear_interview_session(s)
        templated == template_id # 0 /\ ~use_dynamic_mode
        first_q == IF templated
                   THEN IF topics # <<>> THEN Q("intro", "", 0)
                        ELSE Q("role_intro", "", 0)
                   ELSE IF use_dynamic_mode THEN Q("dynamic_intro", "", 0)
                   ELSE Q("default_intro", "", 0)
        interview_mode == IF templated THEN "template"
                          ELSE IF use_dynamic_mode THEN "dynamic" ELSE "default"
        s1 == IF templated /\ topics # <<>>
              THEN Update(cleared, [current_topic_index |-> 0,
                                    current_topic_followups |-> 0,
                                    interview_completed |-> FALSE])
              ELSE cleared
        s2 == IF templated THEN Put(s1, "template_id", template_id) ELSE s1
        system_prompt == IF templated
                         THEN generate_system_prompt_from_template(topics)
                         ELSE <<>>
        convo == <<[Turn("system", NoQ, 0) EXCEPT !.prompt = system_prompt],
                   Turn("assistant", first_q, 0)>>
    IN  Update(s2, [conversation |-> convo, role |-> "role",
                    interview_mode |-> interview_mode,
                    follow_up_count |-> 0, poor_answer_count |-> 0,
                    off_topic_count |-> 0, interview_started |-> TRUE,
                    interview_start_time |-> t, timer_set |-> TRUE,
                    interview_suspended |-> FALSE,
                    interview_completed |-> FALSE])

\* a start_interview call that is rejected: malformed body, unknown template
StartRejected ==
    \E bad_body \in BOOLEAN :
    \E saved \in SessionSaveChoices(IF bad_body THEN 500 ELSE 404) :
       /\ session' = IF saved THEN clear_interview_session(session) ELSE session
       /\ response' = IF bad_body
                      THEN Resp("start_interview", 500, "Failed to start interview", NoQ)
                      ELSE Resp("start_interview", 404, "Template not found", NoQ)
       /\ UNCHANGED <<inflight, transcripts, templates, call, tie_rounds, violations, evidence, now,
                      eval_model, answers, faults, starts, reports>>

\* create: "ok", "fallback" (the first create raises) or "none" (both raise);
\* limit bounds the number of interviews started in one browser session
StartInterviewWithin(limit) ==
    \E template_id \in RequestTemplateIds \cap ({0} \cup DOMAIN templates),
       use_dynamic_mode \in BOOLEAN, create \in {"ok", "fallback", "none"} :
    LET templated == template_id # 0 /\ ~use_dynamic_mode
        topics == IF templated THEN templates[template_id].topics ELSE <<>>
        s3 == StartSession(session, template_id, use_dynamic_mode, topics, now)
        first_q == s3["conversation"][2].q
        header == Line("header", NoQ, <<>>)
        full == <<header>> \o format_log_entry("assistant", first_q, NONE)
        new_id == Len(transcripts) + 1
    IN  /\ starts < limit
        /\ starts' = starts + 1
        /\ Fault(create = "ok")
        /\ UNCHANGED <<inflight, templates, call, tie_rounds, violations, evidence, now, eval_model, answers>>
        /\ response' = Resp("start_interview", 200, "", first_q)
        /\ IF create = "ok"
           THEN /\ transcripts' = Append(transcripts,
                       Row(full, IF templated THEN template_id ELSE NONE, now))
                /\ reports' = Append(reports, 0)
                /\ session' = Put(s3, "transcript_id", new_id)
           ELSE IF create = "fallback"
           THEN /\ transcripts' = Append(transcripts,
                       Row(<<header, Line("error", NoQ, <<>>)>>, NONE, now))
                /\ reports' = Append(reports, 0)
                /\ session' = Put(s3, "transcript_id", new_id)
           ELSE /\ session' = Update(s3, [transcript_id |-> SESSION_ONLY,
                                          transcript_log |-> full])
                /\ UNCHANGED <<transcripts, reports>>

StartInterview == StartInterviewWithin(MaxInterviews)

\* --------------------------------------------------------------- check_time
\* CheckTime that ends the interview when no time is left
CheckTime_Completes ==
    /\ response' = [Resp("check_time", 200, "", NoQ) EXCEPT
                      !.time_remaining = check_interview_time_remaining(session, now),
                      !.total_time = INTERVIEW_DURATION,
                      !.suspended = is_interview_suspended(session),
                      !.completed = is_interview_completed(session)]
    /\ session' = IF check_interview_time_remaining(session, now) <= 0
                  THEN complete_interview_session(session)
                  ELSE session
    /\ UNCHANGED <<inflight, transcripts, templates, call, tie_rounds, violations, evidence,
                   now, eval_model, answers, faults, starts, reports>>

CheckTime ==
    /\ response' = [Resp("check_time", 200, "", NoQ) EXCEPT
                      !.time_remaining = check_interview_time_remaining(session, now),
                      !.total_time = INTERVIEW_DURATION,
                      !.suspended = is_interview_suspended(session),
                      !.completed = is_interview_completed(session)]
    /\ UNCHANGED <<inflight, session, transcripts, templates, call, tie_rounds, violations, evidence, now,
                   eval_model, answers, faults, starts, reports>>

\* -------------------------------------------------------------- stream_chat
\* AppendLines that stores the new lines in place of the text
AppendLines_Overwrite(trs, tid, lines, db) ==
    IF InDb(tid) /\ db /\ tid \in 1..Len(trs)
    THEN [trs EXCEPT ![tid].conversation_history = lines]
    ELSE trs

\* tr.conversation_history += lines; tr.save(), inside try/except
AppendLines(trs, tid, lines, db) ==
    IF InDb(tid) /\ db /\ tid \in 1..Len(trs)
    THEN [trs EXCEPT ![tid].conversation_history = @ \o lines]
    ELSE trs

\* the finalisation block of stream_chat (time expiry, curriculum end)
FinalizeRow(trs, tid, db, model, remote, tail, tie) ==
    IF InDb(tid) /\ db /\ tid \in 1..Len(trs)
    THEN [trs EXCEPT ![tid] =
            [Finalize(@, model, remote, tie) EXCEPT
                !.conversation_history = @ \o tail]]
    ELSE trs

\* the sides round(x, 2) may fall to when the row is scored: at a tie the
\* side it fell to before, if any; the value is kept in tie_rounds
TieChoices(trs, tid, db) ==
    IF InDb(tid) /\ db /\ tid \in 1..Len(trs)
       /\ HalfWay(trs[tid].conversation_history) /\ tie_rounds = "unknown"
    THEN TieSides
    ELSE {tie_rounds}

CountReport(rs, trs, tid, db) ==
    IF InDb(tid) /\ db /\ tid \in 1..Len(trs)
    THEN [rs EXCEPT ![tid] = @ + 1]
    ELSE rs

\* the transcript_log kept in the session when no row exists
AppendSessionLog(s, tid, lines) ==
    IF tid = SESSION_ONLY
    THEN Put(s, "transcript_log", Get(s, "transcript_log", <<>>) \o lines)
    ELSE s

\* Blocked that does not test the completed flag
Blocked_NoCompleted(s, t) ==
    IF is_interview_suspended(s) THEN "INTERVIEW SUSPENDED"
    ELSE IF check_interview_time_remaining(s, t) <= 0 THEN "Interview time expired"
    ELSE ""

\* Blocked with the clock read before the completed flag
Blocked_TimeFirst(s, t) ==
    IF is_interview_suspended(s) THEN "INTERVIEW SUSPENDED"
    ELSE IF check_interview_time_remaining(s, t) <= 0 THEN "Interview time expired"
    ELSE IF is_interview_completed(s) THEN "Interview completed"
    ELSE ""

\* the guard at the top of stream_chat: the reason the call is refused for
Blocked(s, t) ==
    IF is_interview_suspended(s) THEN "INTERVIEW SUSPENDED"
    ELSE IF is_interview_completed(s) THEN "Interview completed"
    ELSE IF check_interview_time_remaining(s, t) <= 0 THEN "Interview time expired"
    ELSE ""

\* Rejected that does not test interview_started
Rejected_NoStartCheck(s, empty) ==
    IF empty THEN "Empty message"
    ELSE IF get_conversation(s) = <<>> THEN "Interview not initialized"
    ELSE ""

\* the checks of the request after the guard
Rejected(s, empty) ==
    IF empty THEN "Empty message"
    ELSE IF Get(s, "interview_started", FALSE) = FALSE THEN "Interview not started"
    ELSE IF get_conversation(s) = <<>> THEN "Interview not initialized"
    ELSE ""

\* StreamChatRefused that marks a suspended session completed, as the branch
\* of the expired time does
StreamChatRefused_Completes ==
    \E empty \in BOOLEAN :
    LET blocked == Blocked(session, now)
        error == IF blocked # "" THEN blocked ELSE Rejected(session, empty)
    IN  /\ blocked \in {"INTERVIEW SUSPENDED", "Interview completed"}
           \/ (blocked = "" /\ error # "")
        /\ response' = [Resp("stream_chat", 400, error, NoQ) EXCEPT
                          !.suspended = (blocked = "INTERVIEW SUSPENDED"),
                          !.completed = (blocked = "Interview completed"),
                          !.detail = IF blocked = "INTERVIEW SUSPENDED"
                                     THEN Get(session, "suspension_reason",
                                              <<"Violation detected">>)
                                     ELSE <<>>]
        /\ session' = IF blocked = "INTERVIEW SUSPENDED"
                      THEN complete_interview_session(session)
                      ELSE session
        /\ UNCHANGED <<inflight, transcripts, templates, call, tie_rounds, violations,
                       evidence, now, eval_model, answers, faults, starts, reports>>

\* stream_chat refused: suspended, completed, or a request that is rejected
StreamChatRefused ==
    \E empty \in BOOLEAN :
    LET blocked == Blocked(session, now)
        error == IF blocked # "" THEN blocked ELSE Rejected(session, empty)
    IN  /\ blocked \in {"INTERVIEW SUSPENDED", "Interview completed"}
           \/ (blocked = "" /\ error # "")
        /\ response' = [Resp("stream_chat", 400, error, NoQ) EXCEPT
                          !.suspended = (blocked = "INTERVIEW SUSPENDED"),
                          !.completed = (blocked = "Interview completed"),
                          !.detail = IF blocked = "INTERVIEW SUSPENDED"
                                     THEN Get(session, "suspension_reason",
                                              <<"Violation detected">>)
                                     ELSE <<>>]
        /\ UNCHANGED <<inflight, session, transcripts, templates, call, tie_rounds, violations, evidence, now,
                       eval_model, answers, faults, starts, reports>>

\* stream_chat when the time is up: the interview is ended automatically
StreamChatExpired ==
    /\ Blocked(session, now) = "Interview time expired"
    /\ \E db \in BOOLEAN, remote \in RemoteChoices :
       \E tie \in TieChoices(transcripts, Get(session, "transcript_id", NONE), db) :
       LET transcript_id == Get(session, "transcript_id", NONE)
       IN
        /\ Fault(db)
        /\ transcripts' = FinalizeRow(transcripts, transcript_id, db, eval_model,
                                      remote, <<Line("ended", NoQ, <<>>)>>, tie)
        /\ tie_rounds' = tie
        /\ reports' = CountReport(reports, transcripts, transcript_id, db)
        /\ session' = complete_interview_session(session)
        /\ response' = Resp("stream_chat", 400, "Interview time expired", NoQ)
        /\ UNCHANGED <<inflight, templates, call, violations, evidence, now, eval_model, answers,
                       starts>>

\* the session and transcript once the answer is evaluated and logged
Answered(s, trs, answer, evaluation, db) ==
    LET transcript_id == Get(s, "transcript_id", NONE)
        convo1 == Append(get_conversation(s),
                         Turn("user", NoQ, evaluation.evaluation_score))
        user_entry == format_log_entry("user", answer, evaluation)
    IN  [session |-> AppendSessionLog(save_conversation(s, convo1),
                                      transcript_id, user_entry),
         transcripts |-> AppendLines(trs, transcript_id,
                             user_entry \o <<Line("metrics", NoQ, <<>>)>>, db)]

\* the next question is added to the conversation and logged
Asked(s, trs, next_q, db) ==
    LET transcript_id == Get(s, "transcript_id", NONE)
        entry == format_log_entry("assistant", next_q, NONE)
    IN  [session |-> AppendSessionLog(
                         save_conversation(s, Append(get_conversation(s),
                                                     Turn("assistant", next_q, 0))),
                         transcript_id, entry),
         transcripts |-> AppendLines(trs, transcript_id, entry, db)]

Accepts(s, t) == Blocked(s, t) = "" /\ Rejected(s, FALSE) = ""

\* last_question = convo[-1]: the turn the answer is evaluated against
last_question(convo) == convo[Len(convo)]

\* the response of a stream_chat call that evaluated the answer
Evaluated(status, error, reply) ==
    [Resp("stream_chat", status, error, reply) EXCEPT
        !.question = last_question(get_conversation(session))]

\* the prompt of the except branch of the dynamic mode
fallback_next == Q("dynamic_unavailable", "", 0)

\* what the generator ollama_event_stream does once the response is iterated:
\* tokens: the tokens it yielded; outcome: "done" (the stream ended and the
\* reply was saved), "error" (requests.post or the stream raised) or "closed"
\* (the client went away and the generator was closed at a yield)
ollama_event_stream(trs, transcript_id, tokens, outcome, db) ==
    IF outcome = "done"
    THEN AppendLines(trs, transcript_id,
                     format_log_entry("assistant", Q("ollama", "", tokens), NONE), db)
    ELSE trs

\* ollama_chunks with no sentinel after the error chunk
ollama_chunks_NoDoneOnError(tokens, outcome) ==
    [i \in 1..tokens |-> "text"]
    \o (IF outcome = "done" THEN <<"done_text", "[DONE]">>
        ELSE IF outcome = "error" THEN <<"error">>
        ELSE <<>>)

\* the chunks ollama_event_stream yields: one per token, then the whole reply
\* and the sentinel, or the error and the sentinel; nothing more once closed
ollama_chunks(tokens, outcome) ==
    [i \in 1..tokens |-> "text"]
    \o (IF outcome = "done" THEN <<"done_text", "[DONE]">>
        ELSE IF outcome = "error" THEN <<"error", "[DONE]">>
        ELSE <<>>)

\* the chunks of generate() in stream_chat: the question, then the sentinel
generate == <<"text", "[DONE]">>

\* a response whose body is streamed in these chunks
Streamed(resp, chunks) == [resp EXCEPT !.chunks = chunks]

\* the tokens a streamed reply may have yielded when it ends with outcome
TokenChoices(outcome) == IF outcome = "done" THEN {MaxTokens} ELSE 0..MaxTokens

\* stream_chat, dynamic mode: the reply is streamed from Ollama. Calling the
\* generator function runs none of its body, so the try around it never
\* raises and its except branch (raised) is never taken
StreamChatDynamic ==
    /\ Accepts(session, now)
    /\ Get(session, "interview_mode", "default") = "dynamic"
    /\ answers < MaxAnswers
    /\ \E answer \in AnswerChoices, reply \in ReplyChoices, db \in BOOLEAN,
          outcome \in {"done", "error", "closed"} :
       \E tokens \in TokenChoices(outcome) :
       LET evaluation == evaluate_answer_gemini(eval_model, reply, answer)
           a == Answered(session, transcripts, answer, evaluation, db)
           transcript_id == Get(session, "transcript_id", NONE)
           raised == FALSE
           fallback == Asked(a.session, a.transcripts, fallback_next, db)
       IN  /\ answers' = answers + 1
           /\ db \/ outcome = "done"
           /\ Fault(db /\ outcome = "done")
           /\ session' = IF raised THEN fallback.session ELSE a.session
           /\ transcripts' = IF raised THEN fallback.transcripts
                             ELSE ollama_event_stream(a.transcripts, transcript_id,
                                                      tokens, outcome, db)
           /\ response' = IF raised
                          THEN Streamed(Evaluated(200, "", fallback_next), generate)
                          ELSE Streamed(Evaluated(200,
                                            IF outcome = "done" THEN "" ELSE outcome,
                                            Q("ollama", "", tokens)),
                                        ollama_chunks(tokens, outcome))
           /\ UNCHANGED <<inflight, templates, call, tie_rounds, violations, evidence, now, eval_model,
                          starts, reports>>

\* stream_chat, template mode: the curriculum. fetch: whether the template is
\* read; db: whether the calls on the transcript row succeed
StreamChatTemplate ==
    /\ Accepts(session, now)
    /\ Get(session, "interview_mode", "default") # "dynamic"
    /\ Get(session, "template_id", NONE) # NONE
    /\ answers < MaxAnswers
    /\ \E answer \in AnswerChoices, reply \in ReplyChoices, db \in BOOLEAN,
          fetch \in BOOLEAN, remote \in RemoteChoices :
       \E saved \in SessionSaveChoices(IF fetch THEN 200 ELSE 500),
          tie \in TieChoices(
                     Answered(session, transcripts, answer,
                              evaluate_answer_gemini(eval_model, reply, answer),
                              db).transcripts,
                     Get(session, "transcript_id", NONE), db) :
       LET evaluation == evaluate_answer_gemini(eval_model, reply, answer)
           a == Answered(session, transcripts, answer, evaluation, db)
           transcript_id == Get(session, "transcript_id", NONE)
           template_id == Get(session, "template_id", NONE)
           plan == PlanTemplate(templates[template_id].topics,
                                Get(session, "current_topic_index", 0),
                                Get(session, "current_topic_followups", 0))
           s3 == Update(a.session, [k \in plan.write |->
                     IF k = "current_topic_index" THEN plan.index ELSE plan.followups])
           done == Asked(IF plan.complete THEN complete_interview_session(s3) ELSE s3,
                         IF plan.complete
                         THEN FinalizeRow(a.transcripts, transcript_id, db, eval_model,
                                          remote, <<>>, tie)
                         ELSE a.transcripts,
                         plan.next_q, db)
           missing == Asked(a.session, a.transcripts, Q("template_missing", "", 0), db)
       IN  /\ answers' = answers + 1
           /\ fetch \/ ~db
           /\ Fault(db)
           /\ UNCHANGED <<inflight, templates, call, violations, evidence, now, eval_model, starts>>
           /\ IF ~fetch
              THEN /\ remote = "fail"
                   /\ session' = IF saved THEN a.session ELSE session
                   /\ transcripts' = a.transcripts
                   /\ reports' = reports
                   /\ tie_rounds' = tie_rounds
                   /\ response' = Evaluated(500, "Internal server error", NoQ)
              ELSE IF template_id \notin DOMAIN templates
              THEN /\ remote = "fail"
                   /\ session' = missing.session
                   /\ transcripts' = missing.transcripts
                   /\ reports' = reports
                   /\ tie_rounds' = tie_rounds
                   /\ response' = Streamed(Evaluated(200, "", Q("template_missing", "", 0)),
                                         generate)
              ELSE /\ plan.complete \/ remote = "fail"
                   /\ session' = done.session
                   /\ transcripts' = done.transcripts
                   /\ reports' = IF plan.complete
                                 THEN CountReport(reports, a.transcripts, transcript_id, db)
                                 ELSE reports
                   /\ tie_rounds' = IF plan.complete THEN tie ELSE tie_rounds
                   /\ response' = Streamed(Evaluated(200, "", plan.next_q), generate)

\* stream_chat, default mode: the next question follows the score band
StreamChatDefault ==
    /\ Accepts(session, now)
    /\ Get(session, "interview_mode", "default") # "dynamic"
    /\ Get(session, "template_id", NONE) = NONE
    /\ answers < MaxAnswers
    /\ \E answer \in AnswerChoices, reply \in ReplyChoices, db \in BOOLEAN :
       LET evaluation == evaluate_answer_gemini(eval_model, reply, answer)
           a == Answered(session, transcripts, answer, evaluation, db)
           next_q == PlanDefault(evaluation.evaluation_score)
           done == Asked(a.session, a.transcripts, next_q, db)
       IN  /\ answers' = answers + 1
           /\ Fault(db)
           /\ session' = done.session
           /\ transcripts' = done.transcripts
           /\ response' = Streamed(Evaluated(200, "", next_q), generate)
           /\ UNCHANGED <<inflight, templates, call, tie_rounds, violations, evidence, now, eval_model,
                          starts, reports>>

StreamChat ==
    \/ StreamChatRefused
    \/ StreamChatExpired
    \/ StreamChatDynamic
    \/ StreamChatTemplate
    \/ StreamChatDefault

\* -------------------------------------------------------- proctor_violation
critical_violations ==
    {"multiple_faces", "no_face", "device", "tab_absence", "copy_attempt"}

\* log_event on a request whose body is `payload`: the evidence file it writes
\* and the ProctorViolation row it creates when the session has a stored
\* transcript
log_event(payload, s, viol, files, db) ==
    LET event_type == payload.type
        kind == "unknown"
        tid == Get(s, "transcript_id", NONE)
    IN  [evidence |-> Append(files, [type |-> event_type, kind |-> kind]),
         violations |->
            IF InDb(tid) /\ db
            THEN Append(viol, [interview |-> tid, violation_type |-> event_type,
                               kind |-> kind, reason |-> payload.reason])
            ELSE viol]

\* whether the request object handed to the view has a `_request` attribute:
\* the views are plain Django views (csrf_exempt, login_required), whose
\* HttpRequest has none, so `request._request` raises AttributeError
HasInnerRequest == FALSE

\* the reason proctor_violation suspends with, as the pieces of the string
\* f"Critical proctoring violation: {violation_type} - {reason}"
SuspensionReason(violation_type, reason) ==
    <<"Critical proctoring violation: ", violation_type, " - ", reason>>

\* Suspended with the flag written from the type of every signal
Suspended_FlagFromType(s, violation_type, reason) ==
    Update(s, [interview_suspended |-> violation_type \in critical_violations,
               suspension_reason |-> SuspensionReason(violation_type, reason)])

\* the session after proctor_violation
Suspended(s, violation_type, reason) ==
    IF violation_type \in critical_violations
    THEN suspend_interview_session(s, SuspensionReason(violation_type, reason))
    ELSE s

\* the proctoring client posts its signals from the interview page, that is
\* while the session holds a started interview
ProctorViolation ==
    \E signal \in Signals :
    \E saved \in SessionSaveChoices(IF HasInnerRequest THEN 200 ELSE 500) :
    LET violation_type == signal[1]
        reason == signal[2]
        s1 == Suspended(session, violation_type, reason)
        logged == log_event([type |-> violation_type, reason |-> reason],
                            s1, violations, evidence, TRUE)
    IN  /\ Get(session, "interview_started", FALSE)
        /\ UNCHANGED <<inflight, transcripts, templates, call, tie_rounds, now, eval_model, answers, faults,
                      starts, reports>>
        /\ session' = IF saved THEN s1 ELSE session
        /\ IF HasInnerRequest
           THEN /\ violations' = logged.violations
                /\ evidence' = logged.evidence
                /\ response' = [Resp("proctor_violation", 200, "", NoQ)
                                  EXCEPT !.detail = signal]
           ELSE /\ UNCHANGED <<violations, evidence>>
                /\ response' = [Resp("proctor_violation", 500, "AttributeError", NoQ)
                                  EXCEPT !.detail = signal]

\* proctor_violation on a body that is not JSON: json.loads raises
ProctorViolationBadBody ==
    /\ Get(session, "interview_started", FALSE)
    /\ response' = Resp("proctor_violation", 500, "bad body", NoQ)
    /\ UNCHANGED <<inflight, session, transcripts, templates, call, tie_rounds, violations, evidence, now,
                   eval_model, answers, faults, starts, reports>>

\* ------------------------------------------------------------ end_interview
\* Ended with the session marked completed after it is cleared
Ended_CompleteLast(s) == complete_interview_session(clear_interview_session(s))

\* the session end_interview leaves
Ended(s) == clear_interview_session(complete_interview_session(s))

EndInterview ==
    \E db \in BOOLEAN, remote \in RemoteChoices :
    \E tie \in TieChoices(transcripts, Get(session, "transcript_id", NONE), db) :
    LET transcript_id == Get(session, "transcript_id", NONE)
        stored == InDb(transcript_id)
        row == transcripts[transcript_id]
        tr == [Finalize(row, eval_model, remote, tie)
                 EXCEPT !.duration = (now - row.created_at) \div 60]
    IN  /\ UNCHANGED <<inflight, templates, call, violations, evidence, now, eval_model, answers,
                      starts>>
        /\ stored \/ (db /\ remote = "fail")
        /\ Fault(db)
        /\ IF stored /\ (~db \/ transcript_id \notin 1..Len(transcripts))
           THEN /\ remote = "fail"
                /\ response' = Resp("end_interview", 500, "error", NoQ)
                /\ UNCHANGED <<session, transcripts, reports, tie_rounds>>
           ELSE /\ tie_rounds' = tie
                /\ transcripts' = IF stored
                                  THEN [transcripts EXCEPT ![transcript_id] = tr]
                                  ELSE transcripts
                /\ reports' = IF stored
                              THEN [reports EXCEPT ![transcript_id] = @ + 1]
                              ELSE reports
                /\ session' = Ended(session)
                /\ response' = [Resp("end_interview", 200, "", NoQ) EXCEPT
                                  !.final_score = IF stored THEN tr.final_score ELSE 0,
                                  !.final_report = IF stored THEN tr.final_report
                                                   ELSE NoReport]

\* --------------------------------------------------------------------- Next
Next ==
    \/ Tick
    \/ StartInterview
    \/ StartRejected
    \/ StreamChat
    \/ CheckTime
    \/ ProctorViolation
    \/ ProctorViolationBadBody
    \/ EndInterview

Spec == Init /\ [][Next]_vars

SpecFaults == InitFaults /\ [][Next]_vars

\* ----------------------------- a stream_chat request served beside another
\* stream_chat up to the evaluation: the request loads the session from the
\* session store (its first read, in the guard) and passes the checks
StreamChatBegin ==
    /\ ~inflight.active
    /\ Accepts(session, now)
    /\ Get(session, "interview_mode", "default") # "dynamic"
    /\ Get(session, "template_id", NONE) = NONE
    /\ answers < MaxAnswers
    /\ inflight' = [active |-> TRUE, session |-> session, row |-> <<>>]
    /\ UNCHANGED <<session, transcripts, templates, violations, evidence, now,
                   eval_model, response, answers, faults, starts, reports,
                   tie_rounds, call>>

\* that request, the answer evaluated, fetches its transcript row:
\* tr = InterviewTranscript.objects.get(id=transcript_id)
StreamChatLogRead ==
    LET transcript_id == Get(inflight.session, "transcript_id", NONE)
    IN  /\ inflight.active
        /\ inflight.row = <<>>
        /\ InDb(transcript_id)
        /\ transcript_id \in 1..Len(transcripts)
        /\ inflight' = [inflight EXCEPT !.row = <<transcripts[transcript_id]>>]
        /\ UNCHANGED <<session, transcripts, templates, violations, evidence, now,
                       eval_model, response, answers, faults, starts, reports,
                       tie_rounds, call>>

\* tr.conversation_history += lines; tr.save() on a row object fetched
\* before: save() writes every field of the object
SaveRow(trs, tid, row, lines) ==
    [trs EXCEPT ![tid] = [row EXCEPT !.conversation_history = @ \o lines]]

\* Answered for a request that had fetched its row (fetched = <<tr>>)
AnsweredOn(s, trs, fetched, answer, evaluation, db) ==
    LET fresh == Answered(s, trs, answer, evaluation, db)
    IN  IF fetched = <<>> THEN fresh
        ELSE [session |-> fresh.session,
              transcripts |-> SaveRow(trs, Get(s, "transcript_id", NONE), fetched[1],
                                      format_log_entry("user", answer, evaluation)
                                      \o <<Line("metrics", NoQ, <<>>)>>)]

\* the rest of that request (default mode): the answer is evaluated, the
\* turn and the next question are added to the session the request loaded,
\* and SessionMiddleware stores that session when the response is returned
StreamChatFinish ==
    /\ inflight.active
    /\ \E answer \in AnswerChoices, reply \in ReplyChoices, db \in BOOLEAN :
       LET evaluation == evaluate_answer_gemini(eval_model, reply, answer)
           a == AnsweredOn(inflight.session, transcripts, inflight.row, answer,
                           evaluation, db)
           next_q == PlanDefault(evaluation.evaluation_score)
           done == Asked(a.session, a.transcripts, next_q, db)
       IN  /\ inflight' = NoFlight
           /\ answers' = answers + 1
           /\ Fault(db)
           /\ session' = done.session
           /\ transcripts' = done.transcripts
           /\ response' = [Resp("stream_chat", 200, "", next_q) EXCEPT
                              !.question = last_question(
                                               get_conversation(inflight.session)),
                              !.chunks = generate]
           /\ UNCHANGED <<templates, call, tie_rounds, violations, evidence, now,
                          eval_model, starts, reports>>

\* an interview during which a submission is served beside other requests
NextRace ==
    \/ StartInterview
    \/ StreamChatBegin
    \/ StreamChatLogRead
    \/ StreamChatFinish
    \/ StreamChatDefault
    \/ StreamChatRefused
    \/ ProctorViolation
    \/ CheckTime

SpecRace == Init /\ [][NextRace]_vars

\* ------------------------------------------- the recruiter edits a template
\* the topic lists an update may carry
UpdatedTopicLists == TopicLists \cup {<<"Graphs">>}

\* update_template by the recruiter who created the template
UpdateTemplate ==
    \E template_id \in {1}, topics \in UpdatedTopicLists :
       /\ IF template_id \in DOMAIN templates
          THEN /\ templates' = [templates EXCEPT ![template_id].topics = topics]
               /\ response' = Resp("update_template", 200, "", NoQ)
          ELSE /\ templates' = templates
               /\ response' = Resp("update_template", 404, "Template not found", NoQ)
       /\ UNCHANGED <<inflight, session, transcripts, call, tie_rounds, violations, evidence,
                      now, eval_model, answers, faults, starts, reports>>

\* delete_template by the recruiter; the rows of the template's interviews
\* stay, with no template (on_delete=SET_NULL)
DeleteTemplate ==
    \E template_id \in {1} :
       /\ IF template_id \in DOMAIN templates
          THEN /\ templates' = [id \in DOMAIN templates \ {template_id} |->
                                    templates[id]]
               /\ transcripts' = [i \in 1..Len(transcripts) |->
                                     IF transcripts[i].template = template_id
                                     THEN [transcripts[i] EXCEPT !.template = NONE]
                                     ELSE transcripts[i]]
               /\ response' = Resp("delete_template", 200, "", NoQ)
          ELSE /\ UNCHANGED <<templates, transcripts>>
               /\ response' = Resp("delete_template", 404, "Template not found", NoQ)
       /\ UNCHANGED <<inflight, session, call, tie_rounds, violations, evidence, now,
                      eval_model, answers, faults, starts, reports>>

\* a curriculum interview while the recruiter edits its template
NextTemplates ==
    \/ StartInterview
    \/ StreamChatTemplate
    \/ StreamChatRefused
    \/ UpdateTemplate
    \/ DeleteTemplate

SpecTemplates == Init /\ [][NextTemplates]_vars

\* ------------------------------------------- a curriculum walked to its end
\* the candidate keeps answering: no suspension, no time expiry, no failure,
\* and a stream_chat call that can be served is served
NextCurriculum ==
    \/ StartInterview
    \/ StreamChatTemplate
    \/ StreamChatRefused

SpecCurriculum ==
    Init /\ [][NextCurriculum]_vars /\ WF_vars(StreamChatTemplate)

\* ------------------------------------------------- a second start_interview
\* the browser session starts another interview: over one in progress, over a
\* suspended one, over a finished one
Restart == StartInterviewWithin(MaxRestarts)

NextRestart ==
    \/ Restart
    \/ StreamChatDefault
    \/ StreamChatRefused
    \/ ProctorViolation

SpecRestart == InitFaults /\ [][NextRestart]_vars

\* ------------------------------------- direct calls of the scoring functions
\* evaluation scores of the turns of the transcripts scored directly
CallScores == {6, 7, 8}
\* a candidate turn as stream_chat logs it: the answer and its evaluation
ScoredTurn(answer, score) ==
    [answer |-> answer,
     evaluation |-> Evaluation(score, generate_technical_feedback(score), 3, 3, 3)]
TurnInputs == {ScoredTurn(answer, score) : answer \in {Strong, Boast},
                                          score \in CallScores}
\* long interviews of one score throughout, lowest and highest
LongTurns ==
    {[i \in 1..n |-> ScoredTurn(Strong, score)] :
         n \in (MaxScores - 2)..MaxScores, score \in {1, 10}}
SeqsUpTo(S, n) == UNION {[1..m -> S] : m \in 0..n}

\* the transcript text start_interview and stream_chat write for these turns
RECURSIVE Logged(_)
Logged(turns) ==
    IF turns = <<>> THEN <<>>
    ELSE IF Len(turns) = 1
    THEN format_log_entry("user", turns[1].answer, turns[1].evaluation)
         \o <<Line("metrics", NoQ, <<>>)>>
         \o format_log_entry("assistant", Q("default_followup", "", 0), NONE)
    ELSE LET half == Len(turns) \div 2
         IN  Logged(SubSeq(turns, 1, half))
             \o Logged(SubSeq(turns, half + 1, Len(turns)))
TranscriptOf(turns) ==
    <<Line("header", NoQ, <<>>)>>
    \o format_log_entry("assistant", Q("default_intro", "", 0), NONE)
    \o Logged(turns)

\* ---- generate_intelligent_question in detail: the pool a question is drawn from
\* the archetypes of question_pools[tier]
question_pools ==
    [tier \in {"beginner", "intermediate", "advanced"} |->
        IF tier = "beginner" THEN {"conceptual", "practical"}
        ELSE IF tier = "intermediate"
             THEN {"conceptual", "practical", "problem_solving"}
             ELSE {"conceptual", "practical", "architectural"}]
\* question_pools.get(difficulty, question_pools['intermediate'])
pool_tier(difficulty) ==
    IF difficulty \in DOMAIN question_pools THEN difficulty ELSE "intermediate"

\* question_types with the third question of every tier chosen alike
question_types_NoAdvanced(difficulty, followup_count) ==
    IF followup_count = 0 THEN {"conceptual", "practical"}
    ELSE {"practical", "problem_solving"}

\* question_types by the follow-up count
question_types(difficulty, followup_count) ==
    IF followup_count = 0 THEN {"conceptual", "practical"}
    ELSE IF followup_count = 1 THEN {"practical", "problem_solving"}
    ELSE IF difficulty = "advanced" THEN {"problem_solving", "architectural"}
    ELSE {"practical", "problem_solving"}

\* available_types: the wanted types the tier has, else all its types
available_types(difficulty, followup_count) ==
    LET pool == question_pools[pool_tier(difficulty)]
        wanted == question_types(difficulty, followup_count) \cap pool
    IN  IF wanted = {} THEN pool ELSE wanted

\* the question returned: one the model wrote (generated: it answered with more
\* than 10 characters), or one of the pool selected_type of the tier
intelligent_question(difficulty, followup_count, previous_answer, model, generated, selected_type) ==
    IF followup_count > 0 /\ previous_answer /\ model /\ generated
    THEN [source |-> "model", tier |-> "", type |-> ""]
    ELSE [source |-> "pool", tier |-> pool_tier(difficulty),
          type |-> selected_type]

\* the difficulties a template may carry (the column takes any text)
Difficulties == {"beginner", "intermediate", "advanced", "expert"}
\* the follow-up counts the function is called with, and one past them
FollowupCounts == 0..(MAX_FOLLOWUPS_PER_TOPIC + 1)
QuestionArgs ==
    [difficulty : Difficulties, followup_count : FollowupCounts,
     previous_answer : BOOLEAN, generated : BOOLEAN]

\* the final scores a report is written for, in hundredths: 0.00 to 10.00
FinalScores == 0..1000

\* the evaluation scores the default branch is entered with: 1..10 and the
\* values on either side that the evaluation model may return
PlanScores == 0..11

\* the arguments of the call: an answer and what the evaluation model does
\* with it, the candidate turns of a transcript, or an evaluation score
\* InterviewTemplate.duration, in minutes, of the templates started from
TemplateDurations == {1, 30}
\* start time (NONE: no interview started), time of the call, the template's
\* duration
TimeArgs ==
    {args \in [start_time : {NONE, 1, 2}, t : 1..(MaxTime + 1),
               duration : TemplateDurations] :
        args.start_time <= args.t}

InitCalls ==
    /\ Boot
    /\ faults = 0
    /\ call \in {[NoCall EXCEPT !.answer = answer, !.reply = reply] :
                     answer \in AnswerTexts, reply \in EvalReplies}
              \cup {[NoCall EXCEPT !.turns = turns] :
                        turns \in SeqsUpTo(TurnInputs, MaxTurns)}
              \cup {[NoCall EXCEPT !.turns = turns] : turns \in LongTurns}
              \cup {[NoCall EXCEPT !.answer = answer] : answer \in StrictAnswers}
              \cup {[NoCall EXCEPT !.args = [score |-> score]] :
                        score \in PlanScores}
              \cup {[NoCall EXCEPT !.args = args] : args \in QuestionArgs}
              \cup {[NoCall EXCEPT !.args = [final_score |-> final_score]] :
                        final_score \in FinalScores}
              \cup {[NoCall EXCEPT !.args = args] : args \in TimeArgs}

\* evaluate_answer_gemini(question, answer)
CallEvaluate ==
    /\ call.fn = ""
    /\ call.args = <<>>
    /\ call' = [call EXCEPT !.fn = "evaluate_answer_gemini",
                            !.out = evaluate_answer_gemini(eval_model, call.reply,
                                                           call.answer)]
    /\ UNCHANGED <<inflight, session, transcripts, templates, violations, evidence, now,
                   eval_model, response, answers, faults, starts, reports,
                   tie_rounds>>

\* calculate_final_score(conversation_history) on a transcript text
CallFinalScore ==
    \E tie \in IF HalfWay(TranscriptOf(call.turns)) THEN TieSides ELSE {tie_rounds} :
    LET history == TranscriptOf(call.turns)
    IN  /\ call.fn = ""
        /\ call.args = <<>>
        /\ call' = [call EXCEPT !.fn = "calculate_final_score",
                                !.out = [scores |-> ExtractScores(history),
                                         final_score |->
                                             calculate_final_score(history, tie)]]
        /\ tie_rounds' = tie
        /\ UNCHANGED <<inflight, session, transcripts, templates, violations, evidence, now,
                       eval_model, response, answers, faults, starts, reports>>

\* evaluate_answer_strict(question, answer)
CallStrict ==
    /\ call.fn = ""
    /\ call.args = <<>>
    /\ call' = [call EXCEPT !.fn = "evaluate_answer_strict",
                            !.out = evaluate_answer_strict(call.answer)]
    /\ UNCHANGED <<inflight, session, transcripts, templates, violations, evidence, now,
                   eval_model, response, answers, faults, starts, reports,
                   tie_rounds>>

\* the default branch of stream_chat entered with an evaluation score
CallPlanDefault ==
    /\ call.fn = ""
    /\ call.args \in [score : PlanScores]
    /\ call' = [call EXCEPT !.fn = "PlanDefault",
                            !.out = PlanDefault(call.args.score)]
    /\ UNCHANGED <<inflight, session, transcripts, templates, violations, evidence, now,
                   eval_model, response, answers, faults, starts, reports,
                   tie_rounds>>

\* generate_intelligent_question(topic, difficulty, followup_count,
\* previous_answer, conversation_context)
CallQuestion ==
    /\ call.fn = ""
    /\ call.args \in QuestionArgs
    /\ \E selected_type \in available_types(call.args.difficulty,
                                            call.args.followup_count) :
           call' = [call EXCEPT
                       !.fn = "generate_intelligent_question",
                       !.out = intelligent_question(
                                   call.args.difficulty, call.args.followup_count,
                                   call.args.previous_answer, eval_model,
                                   call.args.generated, selected_type)]
    /\ UNCHANGED <<inflight, session, transcripts, templates, violations, evidence, now,
                   eval_model, response, answers, faults, starts, reports,
                   tie_rounds>>

\* get_recommendation(final_score), as generate_basic_report calls it
CallRecommendation ==
    /\ call.fn = ""
    /\ call.args \in [final_score : FinalScores]
    /\ call' = [call EXCEPT !.fn = "get_recommendation",
                            !.out = get_recommendation(call.args.final_score)]
    /\ UNCHANGED <<inflight, session, transcripts, templates, violations, evidence,
                   now, eval_model, response, answers, faults, starts, reports,
                   tie_rounds>>

\* check_interview_time_remaining on the session of a templated interview
\* started at start_time (NONE: never started), read at time t
CallTimeRemaining ==
    LET started == StartSession(session, 1, FALSE, <<"Arrays">>, call.args.start_time)
        s == IF call.args.start_time = NONE THEN session ELSE started
    IN  /\ call.fn = ""
        /\ call.args \in TimeArgs
        /\ call' = [call EXCEPT !.fn = "check_interview_time_remaining",
                                !.out = check_interview_time_remaining(s, call.args.t)]
        /\ UNCHANGED <<inflight, session, transcripts, templates, violations, evidence,
                       now, eval_model, response, answers, faults, starts, reports,
                       tie_rounds>>

NextCalls ==
    \/ CallTimeRemaining
    \/ CallRecommendation
    \/ CallEvaluate
    \/ CallFinalScore
    \/ CallStrict
    \/ CallPlanDefault
    \/ CallQuestion

SpecCalls == InitCalls /\ [][NextCalls]_vars

\* ======================================================================
\* Properties
\* ======================================================================
\* the step is a call of the handler `op` (every handler writes its response)
Called(op) == now' = now /\ response'.op = op

Flag(s, k) == Get(s, k, FALSE)
\* started_at lies more than the configured duration in the past
PastDeadline(s, t) ==
    /\ "interview_start_time" \in DOMAIN s
    /\ t - s["interview_start_time"] > INTERVIEW_DURATION
\* the causes for which a session is blocked, by the error that names each
Causes(s, t) ==
    (IF Flag(s, "interview_suspended") THEN {"INTERVIEW SUSPENDED"} ELSE {})
    \cup (IF Flag(s, "interview_completed") THEN {"Interview completed"} ELSE {})
    \cup (IF PastDeadline(s, t) THEN {"Interview time expired"} ELSE {})
\* the turns of the stored transcripts: everything but the end marker
TurnLines(trs) ==
    [i \in DOMAIN trs |->
        SelectSeq(trs[i].conversation_history, LAMBDA l : l.kind # "ended")]

\* C1: a stream_chat call on a session that is suspended, completed or out of
\* time is refused with an error that names one of the causes that hold, and
\* the answer is not evaluated nor added to the conversation.
C1_BlockedIsRefused ==
    [][(Called("stream_chat") /\ Causes(session, now) # {})
        => /\ response'.status = 400
           /\ response'.error \in Causes(session, now)
           /\ answers' = answers
           /\ Get(session', "conversation", <<>>) = Get(session, "conversation", <<>>)
           /\ TurnLines(transcripts') = TurnLines(transcripts)]_vars

\* a submission refused as completed while the session is also past its deadline
C1_Witness ==
    /\ response.op = "stream_chat"
    /\ response.error = "Interview completed"
    /\ Flag(session, "interview_completed")
    /\ answers > 0
\* the conversation and the transcript turns are as before the step
NoTurnAdded ==
    /\ answers' = answers
    /\ Get(session', "conversation", <<>>) = Get(session, "conversation", <<>>)
    /\ TurnLines(transcripts') = TurnLines(transcripts)

\* C2 as claimed: on a session past its deadline every submission is blocked
\* with reason time_expired and appends no turn and no evaluation.
C2_AlwaysTimeExpired ==
    [][(Called("stream_chat") /\ PastDeadline(session, now))
        => (response'.error = "Interview time expired" /\ NoTurnAdded)]_vars

\* C2: on a session past its deadline the time check reports 0 remaining and
\* every submission is refused without a turn or an evaluation being added;
\* the reason is time_expired on a session neither suspended nor completed
\* (that call marks it completed), else suspended or completed.
C2_PastDeadlineRefused ==
    [][PastDeadline(session, now)
        => /\ Called("check_time") => response'.time_remaining = 0
           /\ Called("stream_chat") =>
                /\ response'.status = 400
                /\ response'.error =
                     IF Flag(session, "interview_suspended") THEN "INTERVIEW SUSPENDED"
                     ELSE IF Flag(session, "interview_completed")
                     THEN "Interview completed"
                     ELSE "Interview time expired"
                /\ response'.error = "Interview time expired"
                     => Flag(session', "interview_completed")
                /\ NoTurnAdded]_vars

\* a second submission past the deadline, refused as completed, after the
\* first one ended the stored transcript
C2_Witness ==
    /\ response.op = "stream_chat"
    /\ response.error = "Interview completed"
    /\ PastDeadline(session, now)
    /\ \E i \in DOMAIN transcripts :
          /\ transcripts[i].completed
          /\ \E j \in DOMAIN transcripts[i].conversation_history :
                transcripts[i].conversation_history[j].kind = "ended"

\* the text of a reason that holds nothing but `reason`
Text(reason) == <<reason>>
\* the step handles a signal of a critical type
CriticalSignal ==
    /\ Called("proctor_violation")
    /\ Len(response'.detail) = 2
    /\ response'.detail[1] \in
         {"multiple_faces", "no_face", "device", "tab_absence", "copy_attempt"}

\* C3 as claimed: a critical signal during an interview sets suspended and
\* sets suspension_reason to the reason the signal supplies, and a submission
\* on the suspended session is rejected as suspended.
C3_CriticalSuspends ==
    [][/\ CriticalSignal
          => /\ Flag(session', "interview_suspended")
             /\ Get(session', "suspension_reason", <<>>) = Text(response'.detail[2])
       /\ (Called("stream_chat") /\ Flag(session, "interview_suspended"))
          => response'.error = "INTERVIEW SUSPENDED"]_vars

\* the step is a call of one of the handlers in `ops`
CalledOneOf(ops) == \E op \in ops : Called(op)

\* C4 as claimed: once suspended, no submit-answer, time-check, proctoring
\* signal or end-of-interview call makes suspended false or erases the reason.
C4_SuspendedForever ==
    [][(/\ Flag(session, "interview_suspended")
        /\ CalledOneOf({"stream_chat", "check_time", "proctor_violation",
                        "end_interview"}))
        => /\ Flag(session', "interview_suspended")
           /\ "suspension_reason" \in DOMAIN session']_vars

\* C4: once suspended, no submit-answer, time-check or proctoring-signal call
\* makes suspended false or erases the reason (a later critical signal
\* replaces the reason with its own); an end-of-interview call that succeeds
\* discards the interview's session state, both fields included.
C4_SuspendedUntilEnd ==
    [][Flag(session, "interview_suspended")
        => /\ (CalledOneOf({"stream_chat", "check_time", "proctor_violation"})
               \/ now' # now)
              => /\ Flag(session', "interview_suspended")
                 /\ "suspension_reason" \in DOMAIN session'
                 /\ session'["suspension_reason"] # session["suspension_reason"]
                      => CriticalSignal
           /\ (Called("end_interview") /\ response'.status = 200)
              => /\ ~Flag(session', "interview_suspended")
                 /\ "suspension_reason" \notin DOMAIN session'
           /\ (Called("end_interview") /\ response'.status # 200)
              => session' = session]_vars

\* a submission was refused on a session that is still suspended
C4_Witness ==
    /\ Flag(session, "interview_suspended")
    /\ response.op = "stream_chat"
    /\ response.suspended
    /\ response.detail = session["suspension_reason"]
\* C5 as claimed: a signal of a non-critical type, received while the
\* interview has a stored transcript, stores a violation record for that
\* interview and does not suspend the session.
C5_NonCriticalRecorded ==
    [][(/\ Called("proctor_violation")
        /\ Len(response'.detail) = 2
        /\ ~CriticalSignal
        /\ InDb(Get(session, "transcript_id", NONE)))
        => /\ Len(violations') = Len(violations) + 1
           /\ violations'[Len(violations')].interview = session["transcript_id"]
           /\ violations'[Len(violations')].violation_type = response'.detail[1]
           /\ Flag(session', "interview_suspended")
                = Flag(session, "interview_suspended")]_vars

Replies(convo) ==
    LET asked == SelectSeq(convo, LAMBDA t : t.role = "assistant")
    IN  [i \in 1..(Len(asked) - 1) |-> asked[i + 1].q]
\* the session runs the curriculum of the stored template, whose topics are
\* Arrays and Recursion
TwoTopicCurriculum ==
    /\ Get(session, "interview_mode", "") = "template"
    /\ Get(session, "template_id", NONE) = 1
    /\ templates[1].topics = <<"Arrays", "Recursion">>
    /\ MAX_FOLLOWUPS_PER_TOPIC = 2

\* C7 as claimed: five accepted answers are replied to with the opening of
\* topic 0, one follow-up of it, the opening of topic 1, one follow-up of it
\* and the closing message, and the fifth completes the session.
C7_FiveCalls ==
    (TwoTopicCurriculum /\ Len(Replies(get_conversation(session))) = 5)
    => /\ Replies(get_conversation(session))
            = <<Q("opening", "Arrays", 0), Q("followup", "Arrays", 1),
                Q("opening", "Recursion", 0), Q("followup", "Recursion", 1),
                Q("closing", "", 0)>>
       /\ Flag(session, "interview_completed")

\* the replies the curriculum of Arrays and Recursion gives, in order
SixReplies ==
    <<Q("followup", "Arrays", 1), Q("followup", "Arrays", 2),
      Q("opening", "Recursion", 0),
      Q("followup", "Recursion", 1), Q("followup", "Recursion", 2),
      Q("closing", "", 0)>>

\* C7: start_interview asks the fixed introduction; the accepted answers are
\* then replied to with two follow-ups on topic 0, the opening of topic 1, two
\* follow-ups on it and, at the sixth, the closing message; the sixth reply
\* completes the session, no earlier one does (only the deadline can), and
\* there is no seventh.
C7_SixCalls ==
    TwoTopicCurriculum
    => LET replies == Replies(get_conversation(session))
           n == Len(replies)
       IN  /\ get_conversation(session)[2].q = Q("intro", "", 0)
           /\ n <= 6
           /\ replies = SubSeq(SixReplies, 1, n)
           /\ n = 6 => Flag(session, "interview_completed")
           /\ (n < 6 /\ Flag(session, "interview_completed"))
                => now - session["interview_start_time"] >= INTERVIEW_DURATION

\* the sixth answer was replied to with the closing message
C7_Witness ==
    /\ TwoTopicCurriculum
    /\ Len(Replies(get_conversation(session))) = 6
    /\ response.op = "stream_chat"
    /\ response.reply = Q("closing", "", 0)
    /\ Flag(session, "interview_completed")
    /\ Get(session, "current_topic_index", NONE) = 2
\* the cursor and the counter of the curriculum, where the session holds them
Cursor(s) == Get(s, "current_topic_index", 0)
Counter(s) == Get(s, "current_topic_followups", 0)

\* C8: the follow-up counter of a curriculum session stays within 0..cap; it
\* moves only at a submission, by one step up on the same topic or back to 0
\* together with the cursor; and the cursor moves only by one, at a submission
\* made with the counter at the cap.
C8_CounterWithinCap ==
    [][/\ Counter(session') \in 0..MAX_FOLLOWUPS_PER_TOPIC
       /\ (Called("start_interview") /\ response'.status = 200)
          => (Cursor(session') = 0 /\ Counter(session') = 0)
       /\ (~Called("start_interview") /\ ~Called("end_interview"))
          => /\ Cursor(session') # Cursor(session)
                => /\ Called("stream_chat")
                   /\ Counter(session) = MAX_FOLLOWUPS_PER_TOPIC
                   /\ Cursor(session') = Cursor(session) + 1
                   /\ Counter(session') = 0
             /\ Counter(session') # Counter(session)
                => /\ Called("stream_chat")
                   /\ \/ /\ Counter(session') = Counter(session) + 1
                         /\ Cursor(session') = Cursor(session)
                      \/ /\ Counter(session') = 0
                         /\ Cursor(session') = Cursor(session) + 1]_vars

\* the cursor has advanced to topic 1 and the counter is back at 0
C8_Witness ==
    /\ Get(session, "interview_mode", "") = "template"
    /\ Cursor(session) = 1
    /\ Counter(session) = 0
    /\ response.op = "stream_chat"
    /\ response.reply = Q("opening", "Recursion", 0)
\* the step makes the session completed: the flag becomes true, or a
\* successful end-of-interview call ends the interview
Completing ==
    /\ ~Flag(session, "interview_completed")
    /\ \/ Flag(session', "interview_completed")
       \/ (Called("end_interview") /\ response'.status = 200)

\* C9 as claimed: report generation runs on a stored transcript once, at the
\* step where the session becomes completed, and never again: not before,
\* not a second time, and that step does run it.
C9_ReportExactlyOnce ==
    [][/\ \A i \in DOMAIN reports :
             reports'[i] # reports[i]
             => (reports[i] = 0 /\ reports'[i] = 1 /\ Completing)
       /\ (Completing /\ InDb(Get(session, "transcript_id", NONE)))
          => reports'[session["transcript_id"]] = 1]_vars

\* C10 as claimed: once a transcript has been finalized, a further
\* finalization leaves its stored final score and final report as the first
\* one wrote them.
C10_FirstFinalizationWins ==
    [][\A i \in DOMAIN reports :
          reports[i] >= 1
          => /\ transcripts'[i].final_score = transcripts[i].final_score
             /\ transcripts'[i].final_report = transcripts[i].final_report]_vars

\* the stored transcript text of the session's interview, <<>> without a row
History(s, trs) ==
    LET tid == Get(s, "transcript_id", NONE)
    IN  IF InDb(tid) /\ tid \in 1..Len(trs) THEN trs[tid].conversation_history
        ELSE <<>>
\* the session's transcript row holds a final score and a final report
Finalized(s, trs) ==
    LET tid == Get(s, "transcript_id", NONE)
    IN  /\ InDb(tid)
        /\ tid \in 1..Len(trs)
        /\ trs[tid].final_score # NULL
        /\ trs[tid].final_report # NoReport

\* C11: every session that is marked completed has a final score and a final
\* report stored, whatever failed on the way (no transcript row could be
\* created, the row could not be read or written, the remote report failed).
C11_CompletedHasReport ==
    Flag(session, "interview_completed") => Finalized(session, transcripts)

\* C12: after a stream_chat call that found the session out of time or
\* suspended, a final score and a final report are stored for the session.
C12_ObservedIsFinalized ==
    [][(/\ Called("stream_chat")
        /\ response'.error \in {"Interview time expired", "INTERVIEW SUSPENDED"})
        => Finalized(session', transcripts')]_vars

ClaimedWeight10(i) == IF i <= 3 THEN 7 + i ELSE 10
RECURSIVE ClaimedBetween(_, _, _)
ClaimedBetween(scores, lo, hi) ==
    IF lo > hi THEN 0
    ELSE IF lo = hi THEN scores[lo] * ClaimedWeight10(lo - 1)
    ELSE LET mid == (lo + hi) \div 2
         IN  ClaimedBetween(scores, lo, mid) + ClaimedBetween(scores, mid + 1, hi)
ClaimedSum10(scores) == ClaimedBetween(scores, 1, Len(scores))
Abs(x) == IF x < 0 THEN -x ELSE x

\* C14 as claimed: the final score of a non-empty sequence of scores equals
\* their weighted mean, and it is 5.2 for the scores [8, 6].
C14_ExactMean ==
    (call.fn = "calculate_final_score" /\ call.out.scores # <<>>)
    => /\ call.out.final_score * Len(call.out.scores)
              = 10 * ClaimedSum10(call.out.scores)
       /\ call.out.scores = <<8, 6>> => call.out.final_score = 520

\* C14: the final score of a non-empty sequence of scores is their weighted
\* mean rounded to two decimals, that is a hundredth nearest to the mean, and
\* it is 5.2 for the scores [8, 6].
C14_RoundedMean ==
    (call.fn = "calculate_final_score" /\ call.out.scores # <<>>)
    => /\ 2 * Abs(call.out.final_score * Len(call.out.scores)
                  - 10 * ClaimedSum10(call.out.scores)) <= Len(call.out.scores)
       /\ call.out.scores = <<8, 6>> => call.out.final_score = 520

\* the scores [8, 6] were scored 5.2
C14_Witness ==
    /\ call.fn = "calculate_final_score"
    /\ call.out.scores = <<8, 6>>
    /\ call.out.final_score = 520

\* C15: the scores that enter the final score are the evaluation scores of
\* the candidate turns, one per turn and in order, whatever the answers say;
\* without a candidate turn the final score is 0.
C15_ScoresAreTurnScores ==
    call.fn = "calculate_final_score"
    => /\ call.out.scores =
              [i \in 1..Len(call.turns) |-> call.turns[i].evaluation.evaluation_score]
       /\ call.turns = <<>> => call.out.final_score = 0

\* C16: a stream_chat call on a session that is not blocked is rejected as
\* 'Empty message' or, when no interview was started, as 'Empty message' or
\* 'Interview not started', and it leaves the session, the transcripts and
\* the reports as they were.
C16_RejectedChangesNothing ==
    [][(/\ Called("stream_chat")
        /\ Causes(session, now) = {}
        /\ \/ response'.error = "Empty message"
           \/ ~Flag(session, "interview_started"))
        => /\ response'.status = 400
           /\ response'.error \in {"Empty message", "Interview not started"}
           /\ response'.error = "Interview not started"
                  => ~Flag(session, "interview_started")
           /\ session' = session
           /\ transcripts' = transcripts
           /\ reports' = reports
           /\ answers' = answers]_vars

\* an empty message was rejected in the middle of an interview
C16_Witness ==
    /\ response.op = "stream_chat"
    /\ response.error = "Empty message"
    /\ Flag(session, "interview_started")
    /\ answers > 0
    /\ Causes(session, now) = {}

\* C17: a stream_chat call on a suspended or completed session is refused for
\* that reason and leaves the session and every stored transcript as it was.
C17_RefusedChangesNothing ==
    [][(/\ Called("stream_chat")
        /\ \/ Flag(session, "interview_suspended")
           \/ Flag(session, "interview_completed"))
        => /\ response'.status = 400
           /\ response'.error \in {"INTERVIEW SUSPENDED", "Interview completed"}
           /\ session' = session
           /\ transcripts' = transcripts
           /\ reports' = reports]_vars

\* a submission was refused on a session suspended in the middle of a
\* curriculum, its transcript not finalized
C17_Witness ==
    /\ response.op = "stream_chat"
    /\ response.error = "INTERVIEW SUSPENDED"
    /\ Flag(session, "interview_suspended")
    /\ Get(session, "current_topic_followups", 0) > 0
    /\ ~Finalized(session, transcripts)

\* C18: in dynamic mode, when the streamed reply breaks or the client leaves
\* after some tokens, the reply so far is appended to the transcript as one
\* interviewer line and the lines before, the answer's included, stay.
C18_InterruptedReplyKept ==
    [][(/\ Called("stream_chat")
        /\ response'.status = 200
        /\ response'.error \in {"error", "closed"}
        /\ response'.reply.n > 0
        /\ InDb(Get(session, "transcript_id", NONE)))
        => LET old == History(session, transcripts)
               new == History(session', transcripts')
           IN  /\ Len(new) = Len(old) + 4
               /\ SubSeq(new, 1, Len(old)) = old
               /\ new[Len(new)] = Line("interviewer", response'.reply, <<>>)]_vars

\* C19: in dynamic mode, when Ollama cannot be reached, the reply to an
\* accepted answer is the fixed apology prompt, the prompt is the last turn
\* of the conversation and of the transcript, and the session is not completed.
C19_UnavailableFallsBack ==
    [][(/\ Called("stream_chat")
        /\ response'.status = 200
        /\ response'.error = "error"
        /\ response'.reply.n = 0
        /\ InDb(Get(session, "transcript_id", NONE)))
        => LET convo == get_conversation(session')
               new == History(session', transcripts')
           IN  /\ convo[Len(convo)] = Turn("assistant", fallback_next, 0)
               /\ new[Len(new)] = Line("interviewer", fallback_next, <<>>)
               /\ ~Flag(session', "interview_completed")]_vars

\* the candidate turns kept for the session: in its row and in its session log
CandidateTurns(s, trs) ==
    Len(SelectSeq(History(s, trs) \o Get(s, "transcript_log", <<>>),
                  LAMBDA l : l.kind = "candidate"))

\* C20: every stream_chat call that evaluates an answer succeeds and the
\* candidate's turn is kept, in the transcript row or else in the session log.
C20_TurnRetained ==
    [][(Called("stream_chat") /\ answers' = answers + 1)
        => /\ response'.status = 200
           /\ CandidateTurns(session', transcripts')
                  = CandidateTurns(session, transcripts) + 1]_vars

IsPrefix(a, b) == Len(a) <= Len(b) /\ SubSeq(b, 1, Len(a)) = a

\* C21: every step keeps every stored transcript row, and the text of the row
\* before the step is a prefix of its text after the step.
C21_TranscriptAppendOnly ==
    [][\A i \in 1..Len(transcripts) :
          /\ i <= Len(transcripts')
          /\ IsPrefix(transcripts[i].conversation_history,
                      transcripts'[i].conversation_history)]_vars

\* a row that got an answer, a question and then the end marker of the time
C21_Witness ==
    \E i \in 1..Len(transcripts) :
       LET history == transcripts[i].conversation_history
       IN  /\ Len(history) >= 7
           /\ history[Len(history)].kind = "ended"
           /\ \E j \in 1..Len(history) : history[j].kind = "candidate"

\* C25: check_time answers the remaining time, the total time and the two
\* flags of the session as they are, and changes neither the session nor a
\* transcript nor a report, also when no time is left.
C25_CheckTimeReadsOnly ==
    [][Called("check_time")
        => /\ response'.status = 200
           /\ response'.time_remaining =
                  (IF Get(session, "interview_start_time", NONE) = NONE
                      \/ now - session["interview_start_time"] <= 0
                   THEN INTERVIEW_DURATION
                   ELSE IF now - session["interview_start_time"] >= INTERVIEW_DURATION
                   THEN 0
                   ELSE INTERVIEW_DURATION - (now - session["interview_start_time"]))
           /\ response'.total_time = INTERVIEW_DURATION
           /\ response'.suspended = Flag(session, "interview_suspended")
           /\ response'.completed = Flag(session, "interview_completed")
           /\ session' = session
           /\ transcripts' = transcripts
           /\ reports' = reports]_vars

\* check_time answered 0 on a running interview, and the session is not completed
C25_Witness ==
    /\ response.op = "check_time"
    /\ response.time_remaining = 0
    /\ Flag(session, "interview_started")
    /\ ~Flag(session, "interview_completed")
    /\ ~Finalized(session, transcripts)

\* the interviewer turns of a conversation
InterviewerTurns(convo) == SelectSeq(convo, LAMBDA turn : turn.role = "assistant")

\* C23: every stream_chat call that evaluates an answer evaluates it against
\* the most recent interviewer turn of the session's conversation.
C23_EvaluatedAgainstLastQuestion ==
    [][(Called("stream_chat") /\ answers' = answers + 1)
        => LET asked == InterviewerTurns(get_conversation(session))
           IN  /\ asked # <<>>
               /\ response'.question = asked[Len(asked)]]_vars

\* C27: in plain mode the kind of the next question is decided by the latest
\* evaluation score alone: 8 and above a challenge, 6 or 7 a related-concept
\* question, 4 or 5 a clarifying question, below 4 the reset to a beginner
\* fundamentals question; every score from 1 to 10 lies in exactly one band.
Band(score) ==
    {kind \in {"challenge", "related", "clarifying", "fundamental"} :
        \/ kind = "challenge" /\ score >= 8
        \/ kind = "related" /\ score \in {6, 7}
        \/ kind = "clarifying" /\ score \in {4, 5}
        \/ kind = "fundamental" /\ score < 4}
C27_ScoreBands ==
    call.fn = "PlanDefault"
    => /\ Band(call.args.score) = {call.out.kind}
       /\ call.out.kind = "fundamental"
          => call.out.topic = "programming fundamentals"
C27_Witness ==
    /\ call.fn = "PlanDefault"
    /\ call.args.score = 7
    /\ call.out.kind = "related"

\* C29: the heuristic scorer's score is 5, plus half a point per matched
\* technical term up to 3, plus half a point per matched indicator category
\* up to 2, minus 2 under 15 words, plus 1 over 100 words, minus 3 but not
\* below 1 when an off-topic phrase is present and no term matched, rounded to
\* a nearest integer and clamped to 1..10; each sub-score is score / 2 rounded
\* to a nearest integer and clamped to 1..5. (All amounts are in halves.)
Min(a, b) == IF a < b THEN a ELSE b
Max(a, b) == IF a > b THEN a ELSE b
ClaimedHalves(answer) ==
    LET sum2 == 10 + Min(6, answer.terms) + Min(4, answer.quality)
                + (IF answer.words < 15 THEN -4 ELSE 0)
                + (IF answer.words > 100 THEN 2 ELSE 0)
    IN  IF answer.off_topic /\ answer.terms = 0 THEN Max(2, sum2 - 6) ELSE sum2
\* n is an integer nearest to num / den
Nearest(n, num, den) == Abs(2 * (den * n - num)) <= den
C29_StrictFormula ==
    call.fn = "evaluate_answer_strict"
    => /\ \E n \in 0..12 :
             /\ Nearest(n, ClaimedHalves(call.answer), 2)
             /\ call.out.evaluation_score = Clamp(n, 1, 10)
       /\ \E n \in 0..6 :
             /\ Nearest(n, call.out.evaluation_score, 2)
             /\ call.out.technical_accuracy = Clamp(n, 1, 5)
             /\ call.out.completeness = Clamp(n, 1, 5)
             /\ call.out.clarity = Clamp(n, 1, 5)
C29_Witness ==
    /\ call.fn = "evaluate_answer_strict"
    /\ call.answer.terms = 7
    /\ call.answer.quality = 5
    /\ call.answer.words = 101
    /\ call.out.evaluation_score = 10

\* C30: a question of the rule-based pools comes from a pool of the active
\* tier (an unknown tier counts as intermediate) whose archetype is in the
\* progression set of the question number when the tier has such a pool, and
\* from any pool of the tier otherwise.
ActiveTier(difficulty) ==
    IF difficulty \in {"beginner", "intermediate", "advanced"} THEN difficulty
    ELSE "intermediate"
Progression(tier, number) ==
    IF number = 1 THEN {"conceptual", "practical"}
    ELSE IF number = 2 THEN {"practical", "problem_solving"}
    ELSE IF tier = "advanced" THEN {"problem_solving", "architectural"}
    ELSE {"practical", "problem_solving"}
C30_PoolOfProgression ==
    (call.fn = "generate_intelligent_question" /\ call.out.source = "pool")
    => LET tier == ActiveTier(call.args.difficulty)
           wanted == Progression(tier, call.args.followup_count + 1)
                     \cap question_pools[tier]
       IN  /\ call.out.tier = tier
           /\ call.out.type \in question_pools[tier]
           /\ wanted # {} => call.out.type \in wanted
C30_Witness ==
    /\ call.fn = "generate_intelligent_question"
    /\ call.args.difficulty = "advanced"
    /\ call.args.followup_count = 2
    /\ call.out.source = "pool"
    /\ call.out.type = "architectural"

\* the session is a curriculum interview that has started
Curriculum(s) ==
    /\ Flag(s, "interview_started")
    /\ Get(s, "interview_mode", "default") = "template"
    /\ Get(s, "template_id", NONE) # NONE
\* the topic list in force at the start, as the system prompt names it
StartTopics(s) ==
    LET prompt == get_conversation(s)[1].prompt
    IN  IF prompt = <<"core concepts">> THEN <<>> ELSE prompt
\* the topics of the interviewer's questions, in the order asked, each once
RECURSIVE TopicsAsked(_)
TopicsAsked(convo) ==
    IF convo = <<>> THEN <<>>
    ELSE LET before == TopicsAsked(SubSeq(convo, 1, Len(convo) - 1))
             turn == convo[Len(convo)]
         IN  IF turn.role # "assistant" \/ turn.q.topic = "" THEN before
             ELSE IF before # <<>> /\ before[Len(before)] = turn.q.topic THEN before
             ELSE Append(before, turn.q.topic)
\* the interviewer has said the closing statement of the curriculum
Closed(convo) ==
    \E i \in 1..Len(convo) :
        convo[i].role = "assistant" /\ convo[i].q.kind \in {"closing", "closing_short"}

\* C24: a curriculum session walks the topic list in force at its start: the
\* topics asked about are an initial part of that list, all of it once the
\* closing statement is made, and the interviewer never reports a problem with
\* the template, whatever is done to the template meanwhile.
C24_TopicsFixedAtStart ==
    Curriculum(session)
    => LET convo == get_conversation(session)
       IN  /\ IsPrefix(TopicsAsked(convo), StartTopics(session))
           /\ Closed(convo) => TopicsAsked(convo) = StartTopics(session)
           /\ \A i \in 1..Len(convo) : convo[i].q.kind # "template_missing"

\* the cursor of a curriculum session and the topic list its template holds
TopicIndex(s) == Get(s, "current_topic_index", 0)
TemplateTopics(s, tpls) == tpls[Get(s, "template_id", NONE)].topics

\* C28: in a curriculum session in progress the topic cursor lies between 0
\* and the number of topics of its template; the cursor never decreases, and a
\* step that advances it advances it by exactly one.
C28_TopicIndexBounded ==
    /\ [](/\ Curriculum(session)
          /\ ~Flag(session, "interview_completed")
          /\ Get(session, "template_id", NONE) \in DOMAIN templates
          => /\ 0 <= TopicIndex(session)
             /\ TopicIndex(session) <= Len(TemplateTopics(session, templates)))
    /\ [][Curriculum(session) /\ Curriculum(session')
          => TopicIndex(session') \in {TopicIndex(session), TopicIndex(session) + 1}]_vars

\* the evaluation scores of the candidate's turns of a conversation, in order
TurnScores(convo) ==
    LET turns == SelectSeq(convo, LAMBDA turn : turn.role = "user")
    IN  [i \in 1..Len(turns) |-> turns[i].score]

\* C26: a stream_chat call of a curriculum session that evaluates an answer
\* and succeeds completes the session exactly when it brings the topic cursor to the number
\* of topics; that call answers with the closing statement and stores a final
\* score computed from the scores of all the candidate's turns, the one of
\* this call included.
C26_CompletesAtLastTopic ==
    [][(/\ Called("stream_chat")
        /\ answers' = answers + 1
        /\ response'.status = 200
        /\ Curriculum(session))
        => LET reached == TopicIndex(session') = Len(StartTopics(session))
               history == History(session', transcripts')
           IN  /\ Flag(session', "interview_completed") <=> reached
               /\ reached
                  => /\ response'.reply.kind \in {"closing", "closing_short"}
                     /\ Finalized(session', transcripts')
                     /\ ExtractScores(history)
                            = TurnScores(get_conversation(session'))
                     /\ transcripts'[session'["transcript_id"]].final_score
                            = calculate_final_score(history, tie_rounds')]_vars

\* C22: when a stream_chat request ends that was being served while the
\* session was suspended, the session is still suspended, and a later
\* stream_chat call is refused as suspended without planning a question.
C22_SuspensionSurvives ==
    [][(/\ inflight.active
        /\ ~inflight'.active
        /\ Flag(session, "interview_suspended"))
        => Flag(session', "interview_suspended")]_vars

\* C31: the fallback report's recommendation is decided by the final score:
\* strong hire exactly from 8, consider with training exactly from 6 to below
\* 8, do not hire exactly below 6; every final score from 0 to 10 gets one.
C31_RecommendationBands ==
    call.fn = "get_recommendation"
    => LET score == call.args.final_score
       IN  /\ call.out \in {"Strong Hire", "Consider with Training", "Do Not Hire"}
           /\ call.out = "Strong Hire" <=> score >= 800
           /\ call.out = "Consider with Training" <=> (600 <= score /\ score < 800)
           /\ call.out = "Do Not Hire" <=> score < 600
\* a final score of 7.5 was recommended for training
C31_Witness ==
    /\ call.fn = "get_recommendation"
    /\ call.args.final_score = 750
    /\ call.out = "Consider with Training"

\* the places of the sentinel in a sequence of chunks
Sentinels(chunks) == {i \in 1..Len(chunks) : chunks[i] = "[DONE]"}

\* C32: the streamed response to an accepted answer, when it is sent to its
\* end (a reply that completes, a reply whose backend fails, the single chunk
\* of the curriculum and plain modes), holds the sentinel exactly once, as
\* its last chunk.
C32_OneSentinelLast ==
    [][(/\ Called("stream_chat")
        /\ answers' = answers + 1
        /\ response'.status = 200
        /\ response'.error # "closed")
        => Sentinels(response'.chunks) = {Len(response'.chunks)}]_vars
\* a reply whose backend failed after a token was sent
C32_Witness ==
    /\ response.op = "stream_chat"
    /\ response.error = "error"
    /\ response.chunks = <<"text", "error", "[DONE]">>

\* C33: when a stream_chat request ends that was served while another request
\* of the session wrote to the transcript, every line the stored transcript
\* held is still in it, in the same place.
C33_NoTurnLost ==
    [][(inflight.active /\ ~inflight'.active)
        => \A i \in 1..Len(transcripts) :
              IsPrefix(transcripts[i].conversation_history,
                       transcripts'[i].conversation_history)]_vars

\* what the session holds of an interview in progress: the conversation, the
\* cursor, the timer and the two flags
InterviewState(s) ==
    [k \in {"interview_started", "conversation", "current_topic_index",
            "current_topic_followups", "interview_start_time",
            "interview_suspended", "interview_completed"} \cap DOMAIN s |-> s[k]]

\* C34: a start_interview call that is rejected (unknown template, malformed
\* body) leaves the interview in progress as it was: conversation, cursor,
\* timer, suspended and completed flags.
C34_RejectedStartKeepsSession ==
    [][(Called("start_interview") /\ response'.status >= 400)
        => InterviewState(session') = InterviewState(session)]_vars

\* the interviewer and candidate turns of a conversation
SpokenTurns(convo) == SelectSeq(convo, LAMBDA t : t.role # "system")

C36_EmptyCurriculumCompletes ==
    [][(/\ Called("stream_chat")
        /\ answers' = answers + 1
        /\ response'.status = 200
        /\ Curriculum(session)
        /\ StartTopics(session) = <<>>)
        => /\ response'.reply.kind = "closing_short"
           /\ Flag(session', "interview_completed")
           /\ TopicsAsked(get_conversation(session')) = <<>>
           /\ Finalized(session', transcripts')]_vars

\* the rows of the transcript table that are marked completed
CompletedRows(trs) == {i \in 1..Len(trs) : trs[i].completed}

\* C37: in the plain and adaptive modes a stream_chat call that evaluates an
\* answer never completes the session and never answers with a closing
\* statement; a session of these modes is completed only by a stream_chat
\* call refused for time expiry or by an end_interview call.
C37_NoCompletionBySubmit ==
    [][(Flag(session, "interview_started") /\ ~Curriculum(session))
        => /\ (Called("stream_chat") /\ answers' = answers + 1)
                => /\ ~Flag(session', "interview_completed")
                   /\ CompletedRows(transcripts') = CompletedRows(transcripts)
                   /\ ~response'.completed
                   /\ response'.reply.kind \notin {"closing", "closing_short"}
           /\ (\/ Flag(session', "interview_completed")
                     /\ ~Flag(session, "interview_completed")
               \/ CompletedRows(transcripts') # CompletedRows(transcripts))
                => \/ response'.op = "end_interview"
                   \/ /\ response'.op = "stream_chat"
                      /\ response'.error = "Interview time expired"]_vars
\* a strong answer of the plain mode was followed by another question
C37_Witness ==
    /\ response.op = "stream_chat"
    /\ response.status = 200
    /\ ~Curriculum(session)
    /\ Get(session, "interview_mode", "") = "default"
    /\ response.reply.kind = "challenge"
    /\ ~Flag(session, "interview_completed")

\* the questions the interviewer asked on a topic
QuestionsOn(convo, topic) ==
    SelectSeq(convo, LAMBDA t : t.role = "assistant" /\ t.q.topic = topic)
\* the answers the candidate gave
AnswersIn(convo) == SelectSeq(convo, LAMBDA t : t.role = "user")
\* the answers a curriculum of n topics takes: the introduction and the first
\* topic's follow-ups, then cap + 1 per further topic
AnswersToComplete(n) == (MAX_FOLLOWUPS_PER_TOPIC + 1) * n

\* no topic was asked more than cap + 1 questions, and the session is
\* completed once (cap + 1) * n answers were given
WithinCap(s) ==
    LET convo == get_conversation(s)
        topics == StartTopics(s)
    IN  /\ \A i \in 1..Len(topics) :
               Len(QuestionsOn(convo, topics[i])) <= MAX_FOLLOWUPS_PER_TOPIC + 1
        /\ Len(AnswersIn(convo)) <= AnswersToComplete(Len(topics))
        /\ Len(AnswersIn(convo)) = AnswersToComplete(Len(topics))
               => Flag(s, "interview_completed")
\* the answers a curriculum session still takes to its end
AnswersLeft(s) ==
    AnswersToComplete(Len(StartTopics(s))) - Len(AnswersIn(get_conversation(s)))

RECURSIVE SumOf(_)
SumOf(scores) ==
    IF scores = <<>> THEN 0
    ELSE IF Len(scores) = 1 THEN scores[1]
    ELSE LET half == Len(scores) \div 2
         IN  SumOf(SubSeq(scores, 1, half))
             + SumOf(SubSeq(scores, half + 1, Len(scores)))
\* final score (in hundredths) < sum / n
BelowMean(scores, final_score) == final_score * Len(scores) < 100 * SumOf(scores)

\* C39 as claimed: for every non-empty sequence of integer scores the final
\* score is strictly less than the unweighted mean of the scores.
C39_BelowMean ==
    (call.fn = "calculate_final_score" /\ call.out.scores # <<>>)
        => BelowMean(call.out.scores, call.out.final_score)
\* C39: for every non-empty sequence of fewer than 120 integer scores the
\* final score is strictly less than the unweighted mean of the scores, hence
\* below 10.
C39_BelowMeanUnder120 ==
    (/\ call.fn = "calculate_final_score"
     /\ call.out.scores # <<>>
     /\ Len(call.out.scores) < 120)
        => /\ BelowMean(call.out.scores, call.out.final_score)
           /\ call.out.final_score < 1000
\* 119 scores of 1: the final score is 0.99
C39_Witness ==
    /\ call.fn = "calculate_final_score"
    /\ call.out.scores = [i \in 1..119 |-> 1]
    /\ call.out.final_score = 99

====
